---- MODULE Spec2Model ----
(***************************************************************************)
(* RetailScraper: the bounded-concurrency crawl scheduler                  *)
(* (crawlers/walmart_products_parallel_spider.py), the proxy managers      *)
(* (helpers/enhanced_proxy_manager.py, helpers/adaptive_proxy_manager.py,  *)
(* helpers/helpers.py) and the browser pools built on them                 *)
(* (enhanced_middleware.py, middlewares.py).                               *)
(*                                                                         *)
(* Each component has its own specification over its own variables; the   *)
(* other components' variables stay unchanged under it.                    *)
(***************************************************************************)
EXTENDS Integers, Sequences, FiniteSets, TLC

VARIABLES
    \* ---- WalmartProductsParallelSpider ----
    stores_file,            \* input: the store ids of the lines of stores.jl, in order
    categories_file,        \* input: the number of categories in categories.json,
                            \*        Unreadable when loading it fails
    categories,             \* len(self.categories)
    parallel_stores,        \* input: self.parallel_stores
    started,                \* start() has run
    stores_queue,           \* self.stores_queue (FIFO of store ids)
    active_stores,          \* self.active_stores
    processed_stores,       \* self.processed_stores
    store_category_status,  \* self.store_category_status (dict: store id -> pending categories)
    store_requests,         \* store-page requests in flight (set of store ids)
    category_requests,      \* category-page requests in flight: per store and page,
                            \*        how many categories have that page requested
    pending_gens,           \* schedule_next_stores generators suspended at a yield
    closed,                 \* the spider was closed by an idle signal
    drained,                \* history: category_complete_for_store calls per store
    zero_count,             \* history: times the store's counter reached <= 0
    active_dec,             \* history: decrements of active_stores made for the store
    idle_log,               \* history: what the idle signal that has just scheduled saw
                            \*          and did (NoIdle after any other step)
    page_log,               \* history, kept only in the behaviours that start with
                            \*          page_log.kept: the category page that has just been
                            \*          answered and what was done about it
    \* ---- EnhancedProxyManager / AdaptiveProxyManager ----
    manager,                \* which class the proxy manager is: "enhanced" or "adaptive"
    proxy_details,          \* input: the proxies of the proxy file, in order, with their details
    proxy_stats,            \* self.proxy_stats
    walmart_blocked_ips,    \* self.walmart_blocked_ips (Enhanced)
    subnet_usage,           \* self.subnet_usage (Adaptive)
    last_subnet_reset,      \* self.last_subnet_reset (Adaptive)
    lock,                   \* self.lock: "free", or "held" by a call that waits for it itself
    now,                    \* datetime.now(), in seconds since the manager was constructed
    ops,                    \* history: number of steps taken on the manager
    bot_reports,            \* history: record_failure calls with bot detection, per proxy
    last_get,               \* history: the get_proxy call that has just ended (NoGet after
                            \*          any other step)
    \* ---- EnhancedProxyBrowserMiddleware ----
    browser_pool_size,      \* input: self.browser_pool_size
    rotate_after,           \* input: the request count above which process_request
                            \*        rotates the proxy of a session
    opened,                 \* where spider_opened is: "no", "opening", "yes", "failed"
    spawned,                \* spider_opened: number of creation threads started
    threads,                \* the running _create_enhanced_browser threads
    init_lock,              \* self._init_lock: 0 when free, else the object of the thread
                            \*   that is inside uc.Chrome
    browser_pool,           \* self.browser_pool (FIFO of browser_info objects)
    browser_info,           \* the browser_info objects that are in the pool or checked out
    next_object,            \* the next browser_info object to be allocated
    browser_sessions,       \* self.browser_sessions (its keys)
    workers,                \* the process_request calls in progress
    requests_made,          \* history: number of process_request calls begun
    ticks,                  \* history: number of times the clock has moved
    last_release,           \* history: the _release_enhanced_browser call that has just
                            \*          ended (NoRelease after any other step)
    \* ---- ProxyManager ----
    proxy_by_url,           \* self.proxy_by_url (dict: url -> proxy object)
    proxies_by_priority,    \* self.proxies (urls in priority order)
    proxy_scores,           \* self.proxy_scores (dict: url -> score, in tenths)
    failed_proxies,         \* self.failed_proxies
    \* ---- calls on the shared counters ----
    callers,                \* each caller's call and the statement it is at
    counters,               \* the counters of one proxy and of the spider
    sequential,             \* history: the counters of a sequential execution of
                            \*          the calls, in the order the reactor starts them
    locks,                  \* the manager's and the spider's threading.Lock
    calls_made,             \* history: number of calls made
    \* ---- functions of the helpers, run on their own ----
    primary_file,           \* the proxies of walmart_validated_proxies.json
    fallback_file,          \* the proxies of the fallback file
    registry,               \* the lists a proxy manager holds after it has loaded them
    retry_call              \* a call of make_request_with_retries: its arguments, its
                            \* loop variable, and the history of its attempts and sleeps

schedVars == <<stores_file, categories_file, categories, parallel_stores, started, stores_queue,
               active_stores, processed_stores, store_category_status,
               store_requests, category_requests, pending_gens, closed,
               drained, zero_count, active_dec, idle_log, page_log>>

proxyVars == <<manager, proxy_details, proxy_stats, walmart_blocked_ips, subnet_usage,
               last_subnet_reset, lock, now, ops, bot_reports, last_get>>

poolVars == <<browser_pool_size, rotate_after, opened, spawned, threads, init_lock, browser_pool,
              browser_info,
              next_object, browser_sessions, workers, requests_made, ticks, last_release>>

basicVars == <<proxy_by_url, proxies_by_priority, proxy_scores, failed_proxies>>

callVars == <<callers, counters, sequential, locks, calls_made>>

loadVars == <<primary_file, fallback_file, registry>>

retryVars == <<retry_call>>

funVars == <<loadVars, retryVars>>

vars == <<schedVars, proxyVars, poolVars, basicVars, callVars, funVars>>

-----------------------------------------------------------------------------
(* Bounds of the scheduler model *)

NumStoreIds == 3
MaxFileLen == 3
MaxParallel == 2
MaxCategories == 2
MaxPage == 3

\* Walmart shows 40 items on a full page (parse_category)
FullPage == 40

StoreIds == 1..NumStoreIds
Pages == 1..MaxPage

Max(S) == CHOOSE x \in S : \A y \in S : y <= x
Min2(a, b) == IF a <= b THEN a ELSE b

\* store files up to renaming of the stores: every id is at most one more than
\* the ids before it (duplicated lines are kept: start() loads them all)
Canonical(f) ==
    \A i \in 1..Len(f) : f[i] <= 1 + Max({0} \cup {f[j] : j \in 1..(i-1)})

StoreFiles ==
    {f \in UNION {[1..n -> StoreIds] : n \in 0..MaxFileLen} : Canonical(f)}

Range(f) == {f[i] : i \in DOMAIN f}

-----------------------------------------------------------------------------
(* WalmartProductsParallelSpider *)

\* the loop condition of schedule_next_stores
CanSchedule_OffByOne(active, queue) ==
    active <= parallel_stores /\ queue # <<>>

CanSchedule(active, queue) ==
    active < parallel_stores /\ queue # <<>>

\* One resumption of the schedule_next_stores generator: the loop runs until it
\* yields a store-page request (live) or its condition fails (not live).
\* st = [queue, processed, active, out, live]
\* schedule_next_stores without its test of processed_stores
schedule_resume_Again(st) ==
    IF CanSchedule(st.active, st.queue)
    THEN [queue |-> Tail(st.queue),
          processed |-> st.processed \cup {Head(st.queue)},
          active |-> st.active + 1,
          out |-> st.out \cup {Head(st.queue)},
          live |-> TRUE]
    ELSE [st EXCEPT !.live = FALSE]

RECURSIVE schedule_resume(_)
schedule_resume(st) ==
    IF CanSchedule(st.active, st.queue)
    THEN LET store == Head(st.queue) IN
         IF store \notin st.processed
         THEN [queue |-> Tail(st.queue),
               processed |-> st.processed \cup {store},
               active |-> st.active + 1,
               out |-> st.out \cup {store},
               live |-> TRUE]
         ELSE schedule_resume([st EXCEPT !.queue = Tail(@)])
    ELSE [st EXCEPT !.live = FALSE]

schedule_next_stores_Once(st) == schedule_resume(st)

\* The generator consumed to its end in one go (the for loop of spider_idle)
RECURSIVE schedule_next_stores(_)
schedule_next_stores(st) ==
    LET r == schedule_resume(st) IN
    IF r.live THEN schedule_next_stores(r) ELSE r

SchedState(queue, active) ==
    [queue |-> queue, processed |-> processed_stores, active |-> active,
     out |-> {}, live |-> TRUE]

\* the test that a store's categories are all done
AllDone_Never(n) == n < 0

AllDone(n) == n <= 0

\* category_complete_for_store: the new (status, active_stores) and what happened
category_complete_for_store(status, active, s) ==
    IF s \in DOMAIN status
    THEN LET n == status[s] - 1 IN
         IF AllDone(n)
         THEN [status |-> [x \in DOMAIN status \ {s} |-> status[x]],
               active |-> IF active > 0 THEN active - 1 ELSE active,
               zeroed |-> 1,
               dec |-> IF active > 0 THEN 1 ELSE 0]
         ELSE [status |-> [status EXCEPT ![s] = n],
               active |-> active, zeroed |-> 0, dec |-> 0]
    ELSE [status |-> status, active |-> active, zeroed |-> 0, dec |-> 0]

Unreadable == -1

NoRequests == [s \in StoreIds |-> [page \in Pages |-> 0]]

NoPage == [kept |-> FALSE, fired |-> FALSE, store |-> 0, page |-> 0, answer |-> "none",
           products |-> 0, requested |-> 0, drained |-> 0]

\* the record after a step that answers no category page
NoPageNow == [NoPage EXCEPT !.kept = page_log.kept]

NoIdle == [fired |-> FALSE, active |-> 0, queue |-> <<>>, processed |-> {},
           admitted |-> 0, active_after |-> 0, queue_after |-> <<>>]

SchedInit ==
    /\ stores_file \in StoreFiles
    /\ categories_file \in {Unreadable} \cup 0..MaxCategories
    /\ categories = 0
    /\ parallel_stores \in 1..MaxParallel
    /\ started = FALSE
    /\ stores_queue = <<>>
    /\ active_stores = 0
    /\ processed_stores = {}
    /\ store_category_status = <<>>
    /\ store_requests = {}
    /\ category_requests = NoRequests
    /\ pending_gens = 0
    /\ closed = FALSE
    /\ drained = [s \in StoreIds |-> 0]
    /\ zero_count = [s \in StoreIds |-> 0]
    /\ active_dec = [s \in StoreIds |-> 0]
    /\ idle_log = NoIdle

\* the effect of one resumption on the spider's state
ApplyResume(r) ==
    /\ stores_queue' = r.queue
    /\ processed_stores' = r.processed
    /\ active_stores' = r.active
    /\ store_requests' = store_requests \cup r.out

\* start(): load the stores and the categories, then the first resumption of
\* schedule_next_stores
Start ==
    /\ ~started
    /\ categories_file # Unreadable
    /\ started' = TRUE
    /\ categories' = categories_file
    /\ LET r == schedule_resume(SchedState(stores_file, active_stores)) IN
       /\ ApplyResume(r)
       /\ pending_gens' = IF r.live THEN pending_gens + 1 ELSE pending_gens
    /\ UNCHANGED <<stores_file, categories_file, parallel_stores,
                   store_category_status, category_requests, closed, drained,
                   zero_count, active_dec>>
    /\ idle_log' = NoIdle
    /\ page_log' = NoPageNow
    /\ UNCHANGED <<proxyVars, poolVars, basicVars, callVars, funVars>>

\* start() when loading the categories fails: the stores are queued, start
\* returns before it schedules any
StartNoCategories ==
    /\ ~started
    /\ categories_file = Unreadable
    /\ started' = TRUE
    /\ stores_queue' = stores_file
    /\ UNCHANGED <<stores_file, categories_file, categories, parallel_stores,
                   active_stores, processed_stores, store_category_status,
                   store_requests, category_requests, pending_gens, closed,
                   drained, zero_count, active_dec>>
    /\ idle_log' = NoIdle
    /\ page_log' = NoPageNow
    /\ UNCHANGED <<proxyVars, poolVars, basicVars, callVars, funVars>>

\* the engine takes the next request from a suspended schedule_next_stores
GenResume ==
    /\ pending_gens > 0
    /\ ~closed
    /\ LET r == schedule_resume(SchedState(stores_queue, active_stores)) IN
       /\ ApplyResume(r)
       /\ pending_gens' = IF r.live THEN pending_gens ELSE pending_gens - 1
    /\ UNCHANGED <<stores_file, categories_file, categories, parallel_stores, started,
                   store_category_status, category_requests, closed, drained,
                   zero_count, active_dec>>
    /\ idle_log' = NoIdle
    /\ page_log' = NoPageNow
    /\ UNCHANGED <<proxyVars, poolVars, basicVars, callVars, funVars>>

\* handle_store_error: the slot is given back, then schedule_next_stores
HandleStoreError(s) ==
    /\ s \in store_requests
    /\ active_dec' = [active_dec EXCEPT ![s] = @ + 1]
    /\ LET r == schedule_resume(SchedState(stores_queue, active_stores - 1)) IN
       /\ stores_queue' = r.queue
       /\ processed_stores' = r.processed
       /\ active_stores' = r.active
       /\ store_requests' = (store_requests \ {s}) \cup r.out
       /\ pending_gens' = IF r.live THEN pending_gens + 1 ELSE pending_gens
    /\ UNCHANGED <<stores_file, categories_file, categories, parallel_stores, started,
                   store_category_status, category_requests, closed, drained,
                   zero_count>>
    /\ idle_log' = NoIdle
    /\ page_log' = NoPageNow
    /\ UNCHANGED <<proxyVars, poolVars, basicVars, callVars, funVars>>

\* scrape_category: n more requests of the given page for categories of store s
\* (the scheduler never looks at which category a request is for)
scrape_category_OneMore(reqs, s, page, n) == [reqs EXCEPT ![s][page] = @ + n + 1]

scrape_category(reqs, s, page, n) == [reqs EXCEPT ![s][page] = @ + n]

\* a response or an error of the request leaves the set of requests in flight
Answered(reqs, s, page) == [reqs EXCEPT ![s][page] = @ - 1]

\* parse_store_page, the store was set ("store" in response.url)
ParseStorePageOk(s) ==
    /\ s \in store_requests
    /\ store_requests' = store_requests \ {s}
    /\ store_category_status' =
           [x \in DOMAIN store_category_status \cup {s} |->
               IF x = s THEN categories ELSE store_category_status[x]]
    /\ category_requests' = scrape_category(category_requests, s, 1, categories)
    /\ UNCHANGED <<stores_file, categories_file, categories, parallel_stores, started, stores_queue,
                   active_stores, processed_stores, pending_gens, closed, drained,
                   zero_count, active_dec>>
    /\ idle_log' = NoIdle
    /\ page_log' = NoPageNow
    /\ UNCHANGED <<proxyVars, poolVars, basicVars, callVars, funVars>>

\* parse_store_page, the store was not set
ParseStorePageFailed(s) ==
    /\ s \in store_requests
    /\ store_requests' = store_requests \ {s}
    /\ active_stores' = active_stores - 1
    /\ active_dec' = [active_dec EXCEPT ![s] = @ + 1]
    /\ UNCHANGED <<stores_file, categories_file, categories, parallel_stores, started, stores_queue,
                   processed_stores, store_category_status, category_requests,
                   pending_gens, closed, drained, zero_count>>
    /\ idle_log' = NoIdle
    /\ page_log' = NoPageNow
    /\ UNCHANGED <<proxyVars, poolVars, basicVars, callVars, funVars>>

\* the store's category is reported drained
CategoryDrained(s) ==
    LET r == category_complete_for_store(store_category_status, active_stores, s) IN
    /\ store_category_status' = r.status
    /\ active_stores' = r.active
    /\ drained' = [drained EXCEPT ![s] = @ + 1]
    /\ zero_count' = [zero_count EXCEPT ![s] = @ + r.zeroed]
    /\ active_dec' = [active_dec EXCEPT ![s] = @ + r.dec]

\* parse_category, "if products and len(products) >= 40": there are more pages
HasMorePages_Above(products) == products > FullPage

HasMorePages(products) == products >= FullPage

\* the record of an answered category page: how many requests of the next page
\* and how many drain reports the step has made
PageLog(s, page, answer, products) ==
    IF ~page_log.kept THEN NoPage ELSE
    [kept |-> TRUE, fired |-> TRUE, store |-> s, page |-> page, answer |-> answer, products |-> products,
     requested |-> IF page < MaxPage
                   THEN category_requests'[s][page + 1] - category_requests[s][page + 1]
                   ELSE 0,
     drained |-> drained'[s] - drained[s]]

\* parse_category: products is the number of products extracted, -1 when the
\* page holds no __NEXT_DATA__
ParseCategory(s, page, products) ==
    /\ category_requests[s][page] > 0
    /\ IF HasMorePages(products)
       THEN /\ page < MaxPage
            /\ category_requests' =
                   scrape_category(Answered(category_requests, s, page), s, page + 1, 1)
            /\ UNCHANGED <<store_category_status, active_stores, drained,
                           zero_count, active_dec>>
       ELSE /\ category_requests' = Answered(category_requests, s, page)
            /\ CategoryDrained(s)
    /\ UNCHANGED <<stores_file, categories_file, categories, parallel_stores, started, stores_queue,
                   processed_stores, store_requests, pending_gens, closed>>
    /\ idle_log' = NoIdle
    /\ page_log' = PageLog(s, page, "response", products)
    /\ UNCHANGED <<proxyVars, poolVars, basicVars, callVars, funVars>>

\* handle_category_error
HandleCategoryError(s, page) ==
    /\ category_requests[s][page] > 0
    /\ category_requests' = Answered(category_requests, s, page)
    /\ CategoryDrained(s)
    /\ UNCHANGED <<stores_file, categories_file, categories, parallel_stores, started, stores_queue,
                   processed_stores, store_requests, pending_gens, closed>>
    /\ idle_log' = NoIdle
    /\ page_log' = PageLog(s, page, "failure", 0)
    /\ UNCHANGED <<proxyVars, poolVars, basicVars, callVars, funVars>>

\* the engine is idle: nothing is in flight and no callback output is pending
EngineIdle ==
    /\ started
    /\ ~closed
    /\ store_requests = {}
    /\ category_requests = NoRequests
    /\ pending_gens = 0

\* spider_idle, should_schedule: the whole generator is consumed, DontCloseSpider
SpiderIdleSchedule ==
    /\ EngineIdle
    /\ CanSchedule(active_stores, stores_queue)
    /\ LET r == schedule_next_stores(SchedState(stores_queue, active_stores)) IN
       /\ ApplyResume(r)
       /\ idle_log' = [fired |-> TRUE, active |-> active_stores,
                       queue |-> stores_queue, processed |-> processed_stores,
                       admitted |-> Cardinality(r.out),
                       active_after |-> r.active, queue_after |-> r.queue]
    /\ page_log' = NoPageNow
    /\ UNCHANGED <<stores_file, categories_file, categories, parallel_stores, started,
                   store_category_status, category_requests, pending_gens, closed,
                   drained, zero_count, active_dec>>
    /\ UNCHANGED <<proxyVars, poolVars, basicVars, callVars, funVars>>

\* spider_idle, nothing to schedule: the spider closes
SpiderIdleClose ==
    /\ EngineIdle
    /\ ~CanSchedule(active_stores, stores_queue)
    /\ closed' = TRUE
    /\ UNCHANGED <<stores_file, categories_file, categories, parallel_stores, started, stores_queue,
                   active_stores, processed_stores, store_category_status,
                   store_requests, category_requests, pending_gens, drained,
                   zero_count, active_dec>>
    /\ idle_log' = NoIdle
    /\ page_log' = NoPageNow
    /\ UNCHANGED <<proxyVars, poolVars, basicVars, callVars, funVars>>

\* what a category page can hold: no __NEXT_DATA__, a short page, a full page
PageResults == {-1, FullPage - 1, FullPage}

SchedNext ==
    \/ Start
    \/ StartNoCategories
    \/ GenResume
    \/ \E s \in StoreIds : HandleStoreError(s)
    \/ \E s \in StoreIds : ParseStorePageOk(s)
    \/ \E s \in StoreIds : ParseStorePageFailed(s)
    \/ \E s \in StoreIds, page \in Pages, n \in PageResults : ParseCategory(s, page, n)
    \/ \E s \in StoreIds, page \in Pages : HandleCategoryError(s, page)
    \/ SpiderIdleSchedule
    \/ SpiderIdleClose

-----------------------------------------------------------------------------
(* Bounds of the proxy manager model *)

NumProxies == 2
MaxOps == 5

Proxies == 1..NumProxies

\* a timestamp that is None
NoTime == -1

\* timedelta(minutes=1), in seconds
Minute == 60

\* the kinds of entry of the proxy file: a residential proxy in the US with a
\* low latency, and a datacenter proxy elsewhere, in another subnet, with a high
\* latency and a Walmart score from the validation
ProxyKinds ==
    {[category |-> "residential", us |-> TRUE, latency_ms |-> 300,
      walmart_score |-> 0, subnet |-> "10.0.0"],
     [category |-> "datacenter", us |-> FALSE, latency_ms |-> 2500,
      walmart_score |-> 90, subnet |-> "10.0.1"]}

ProxyFiles == UNION {[1..n -> ProxyKinds] : n \in 0..NumProxies}

Min(S) == CHOOSE x \in S : \A y \in S : x <= y

RECURSIVE Ascending(_)
Ascending(S) == IF S = {} THEN <<>> ELSE <<Min(S)>> \o Ascending(S \ {Min(S)})

-----------------------------------------------------------------------------
(* EnhancedProxyManager *)

\* the lambda of self.proxy_stats, with the Walmart score that _categorize_proxy
\* takes from the file
DefaultStats(score) ==
    [requests |-> 0, successes |-> 0, failures |-> 0, bot_detections |-> 0,
     last_used |-> NoTime, last_success |-> NoTime, cooldown_until |-> NoTime,
     consecutive_failures |-> 0, walmart_score |-> score]

\* _categorize_proxy and _apply_walmart_filters: the proxies of a category, those
\* in the US first, each part in the order of the file
Pool(category) ==
    LET In(us) == {p \in DOMAIN proxy_details :
                      /\ proxy_details[p].category = category
                      /\ proxy_details[p].us = us}
    IN  Ascending(In(TRUE)) \o Ascending(In(FALSE))

\* proxy_pools of get_proxy: the order in which the proxies are looked at
proxy_pools == Pool("residential") \o Pool("mobile") \o Pool("datacenter")

base_score(p) ==
    CASE proxy_details[p].category = "residential" -> 100
      [] proxy_details[p].category = "mobile" -> 80
      [] OTHER -> 30

\* stats["cooldown_until"] and current_time < stats["cooldown_until"]
InCooldown_Never(stats, t) == FALSE

InCooldown(stats, t) == stats.cooldown_until # NoTime /\ t < stats.cooldown_until

\* the three "continue" tests of get_proxy
Skipped(p, t) ==
    \/ p \in walmart_blocked_ips
    \/ InCooldown(proxy_stats[p], t)
    \/ proxy_stats[p].consecutive_failures >= 3

\* the score of get_proxy as the fraction num / den
Score(p, t) ==
    LET stats == proxy_stats[p]
        recent == IF stats.last_success = NoTime THEN 0
                  ELSE IF t - stats.last_success < 5 * Minute THEN 20
                  ELSE IF t - stats.last_success < 30 * Minute THEN 10
                  ELSE 0
        fixed == base_score(p) + stats.walmart_score + recent
                     + (IF proxy_details[p].us THEN 15 ELSE 0)
                     + (IF proxy_details[p].latency_ms < 1000 THEN 10 ELSE 0)
    IN  IF stats.requests > 0
        THEN [num |-> fixed * stats.requests + 50 * stats.successes
                          - 100 * stats.bot_detections,
              den |-> stats.requests]
        ELSE [num |-> fixed, den |-> 1]

Higher(a, b) == a.num * b.den > b.num * a.den

RECURSIVE Select(_, _)
Select(seq, t) ==
    IF seq = <<>> THEN <<>>
    ELSE IF Skipped(Head(seq), t) THEN Select(Tail(seq), t)
    ELSE <<[proxy |-> Head(seq), score |-> Score(Head(seq), t)]>> \o Select(Tail(seq), t)

\* available_proxies of get_proxy, before it is sorted
available_proxies(t) == Select(proxy_pools, t)

\* available_proxies.sort(key=score, reverse=True): a stable sort, proxies of
\* equal score stay in their order
RECURSIVE SortByScore(_)
SortByScore(seq) ==
    IF seq = <<>> THEN <<>>
    ELSE LET i == CHOOSE i \in 1..Len(seq) : \A j \in 1..Len(seq) :
                      IF j < i THEN Higher(seq[i].score, seq[j].score)
                      ELSE ~Higher(seq[j].score, seq[i].score)
         IN  <<seq[i]>> \o
             SortByScore(SubSeq(seq, 1, i - 1) \o SubSeq(seq, i + 1, Len(seq)))

\* the proxies the selection may take from the available ones: the best one, or
\* with random.random() < 0.2 and more than k available any of the best k
TopChoice(available, k) ==
    LET sorted == SortByScore(available) IN
    IF Len(sorted) > k THEN {sorted[i].proxy : i \in 1..k} ELSE {sorted[1].proxy}

Selectable(t) == TopChoice(available_proxies(t), 3)

\* the proxies of the sorted available_proxies, best first
Ranking(available) ==
    LET sorted == SortByScore(available) IN [i \in 1..Len(sorted) |-> sorted[i].proxy]

\* the proxies whose cooldown_until lies in the future at time t
Cooling(t) == {p \in DOMAIN proxy_stats : proxy_stats[p].cooldown_until > t}

NoContext == [url_type |-> "", retry_count |-> 0, last_proxy |-> 0]

\* the request contexts: none, a product page, a retry after proxy p
Contexts ==
    {NoContext, [url_type |-> "product", retry_count |-> 0, last_proxy |-> 0]}
        \cup {[url_type |-> "", retry_count |-> 1, last_proxy |-> p] : p \in Proxies}

\* the proxy a request context asks not to get: the last proxy of a retry
LastProxyOfRetry(context) == IF context.retry_count > 0 THEN context.last_proxy ELSE 0

NoGet == [ended |-> FALSE, returned |-> FALSE, proxy |-> 0, reset |-> FALSE,
          cooling |-> {}, excluded |-> 0, ranking |-> <<>>]

\* get_proxy, some proxy is available: it is selected and returned
EnhancedGetProxyReturns(request_context, p) ==
    /\ lock = "free"
    /\ available_proxies(now) # <<>>
    /\ p \in Selectable(now)
    /\ proxy_stats' = [proxy_stats EXCEPT ![p].last_used = now, ![p].requests = @ + 1]
    /\ last_get' = [ended |-> TRUE, returned |-> TRUE, proxy |-> p, reset |-> FALSE,
                    cooling |-> Cooling(now),
                    excluded |-> LastProxyOfRetry(request_context),
                    ranking |-> Ranking(available_proxies(now))]
    /\ UNCHANGED <<walmart_blocked_ips, lock>>

\* get_proxy, no proxy is available: all cooldowns and consecutive failures are
\* reset, then get_proxy calls itself while it holds self.lock, a threading.Lock:
\* the inner call waits for the lock for ever
EnhancedGetProxyResets(request_context) ==
    /\ lock = "free"
    /\ available_proxies(now) = <<>>
    /\ proxy_stats' = [p \in DOMAIN proxy_stats |->
                          [proxy_stats[p] EXCEPT !.cooldown_until = NoTime,
                                                 !.consecutive_failures = 0]]
    /\ lock' = "held"
    /\ last_get' = [ended |-> TRUE, returned |-> FALSE, proxy |-> 0, reset |-> TRUE,
                    cooling |-> Cooling(now),
                    excluded |-> LastProxyOfRetry(request_context),
                    ranking |-> <<>>]
    /\ UNCHANGED walmart_blocked_ips

\* record_success
EnhancedRecordSuccess_KeepsFailures(p) ==
    /\ lock = "free"
    /\ proxy_stats' = [proxy_stats EXCEPT
           ![p].successes = @ + 1,
           ![p].last_success = now,
           ![p].cooldown_until = NoTime,
           ![p].walmart_score = Min2(100, @ + 5)]
    /\ UNCHANGED <<walmart_blocked_ips, lock>>

EnhancedRecordSuccess(p) ==
    /\ lock = "free"
    /\ proxy_stats' = [proxy_stats EXCEPT
           ![p].successes = @ + 1,
           ![p].last_success = now,
           ![p].consecutive_failures = 0,
           ![p].cooldown_until = NoTime,
           ![p].walmart_score = Min2(100, @ + 5)]
    /\ UNCHANGED <<walmart_blocked_ips, lock>>

\* stats["bot_detections"] >= 3: the proxy is marked as blocked by Walmart
TooManyDetections_Four(n) == n >= 4

TooManyDetections(n) == n >= 3

Max2(a, b) == IF a >= b THEN a ELSE b

\* record_failure
EnhancedRecordFailure_FlatCooldown(p, is_bot_detection) ==
    /\ lock = "free"
    /\ proxy_stats' = [proxy_stats EXCEPT
           ![p].failures = @ + 1,
           ![p].consecutive_failures = @ + 1,
           ![p].bot_detections = IF is_bot_detection THEN @ + 1 ELSE @,
           ![p].walmart_score = IF is_bot_detection THEN Max2(-50, @ - 20)
                                ELSE Max2(-20, @ - 5),
           ![p].cooldown_until = now + (IF is_bot_detection THEN 30 ELSE 1) * Minute]
    /\ walmart_blocked_ips' =
           IF is_bot_detection /\ TooManyDetections(proxy_stats[p].bot_detections + 1)
           THEN walmart_blocked_ips \cup {p}
           ELSE walmart_blocked_ips
    /\ UNCHANGED lock

EnhancedRecordFailure(p, is_bot_detection) ==
    /\ lock = "free"
    /\ LET stats == proxy_stats[p]
           consecutive == stats.consecutive_failures + 1
       IN
       IF is_bot_detection
       THEN /\ proxy_stats' = [proxy_stats EXCEPT
                   ![p].failures = @ + 1,
                   ![p].consecutive_failures = consecutive,
                   ![p].bot_detections = @ + 1,
                   ![p].walmart_score = Max2(-50, @ - 20),
                   ![p].cooldown_until = now + 30 * Minute]
            /\ walmart_blocked_ips' =
                   IF TooManyDetections(stats.bot_detections + 1)
                   THEN walmart_blocked_ips \cup {p}
                   ELSE walmart_blocked_ips
       ELSE /\ proxy_stats' = [proxy_stats EXCEPT
                   ![p].failures = @ + 1,
                   ![p].consecutive_failures = consecutive,
                   ![p].walmart_score = Max2(-20, @ - 5),
                   ![p].cooldown_until =
                       IF consecutive >= 3 THEN now + 15 * Minute
                       ELSE IF consecutive >= 2 THEN now + 5 * Minute
                       ELSE now + Minute]
            /\ UNCHANGED walmart_blocked_ips
    /\ UNCHANGED lock

\* record_success and then record_failure for the same proxy, within one fetch
EnhancedRecordSuccessThenFailure(p) ==
    /\ lock = "free"
    /\ proxy_stats' = [proxy_stats EXCEPT
           ![p].successes = @ + 1,
           ![p].last_success = now,
           ![p].failures = @ + 1,
           ![p].consecutive_failures = 1,
           ![p].walmart_score = Max2(-20, Min2(100, @ + 5) - 5),
           ![p].cooldown_until = now + Minute]
    /\ UNCHANGED <<walmart_blocked_ips, lock>>

-----------------------------------------------------------------------------
(* AdaptiveProxyManager *)

\* request_context is None
\* the rate limit of get_proxy: the proxy was used less than min_interval ago
UsedTooRecently(stats, t) ==
    /\ stats.last_used # NoTime
    /\ t - stats.last_used < (IF stats.successes > stats.failures THEN 2 ELSE 10)

\* the "continue" tests of get_proxy
AdaptiveSkipped(p, t, context) ==
    \/ InCooldown(proxy_stats[p], t)
    \/ UsedTooRecently(proxy_stats[p], t)
    \/ context.retry_count > 0 /\ p = context.last_proxy

\* subnet_usage at get_proxy, after the hourly reset
SubnetUsage(t) == IF t - last_subnet_reset > 60 * Minute THEN <<>> ELSE subnet_usage

\* self.subnet_usage[subnet], a defaultdict(int)
UsageOf(usage, subnet) == IF subnet \in DOMAIN usage THEN usage[subnet] ELSE 0

\* _calculate_dynamic_score minus the subnet penalty plus the context bonus, as
\* the fraction num / den
AdaptiveScore(p, t, context) ==
    LET stats == proxy_stats[p]
        details == proxy_details[p]
        recent == IF stats.last_success = NoTime THEN 0
                  ELSE IF t - stats.last_success < 60 * Minute THEN 5
                  ELSE IF t - stats.last_success < 6 * 60 * Minute THEN 2
                  ELSE 0
        fixed == details.walmart_score + recent
                     + (IF details.us THEN 3 ELSE 0)
                     + (IF details.latency_ms > 2000 THEN -3
                        ELSE IF details.latency_ms < 500 THEN 2 ELSE 0)
        den == IF stats.requests > 0 THEN stats.requests ELSE 1
        num == IF stats.requests > 0
               THEN fixed * den + 10 * stats.successes - 20 * stats.bot_detections
               ELSE fixed
        after == 2 * UsageOf(SubnetUsage(t), details.subnet)
                   - (IF context.url_type = "product" /\ details.us THEN 5 ELSE 0)
    IN  [num |-> Max2(0, num) - after * den, den |-> den]

RECURSIVE AdaptiveSelect(_, _, _)
AdaptiveSelect(seq, t, context) ==
    IF seq = <<>> THEN <<>>
    ELSE IF AdaptiveSkipped(Head(seq), t, context)
         THEN AdaptiveSelect(Tail(seq), t, context)
    ELSE <<[proxy |-> Head(seq), score |-> AdaptiveScore(Head(seq), t, context)]>>
             \o AdaptiveSelect(Tail(seq), t, context)

\* self.proxies
proxies == Ascending(DOMAIN proxy_details)

\* available_proxies of get_proxy, before it is sorted
adaptive_available_proxies(t, context) == AdaptiveSelect(proxies, t, context)

\* the hourly reset of subnet_usage at the start of get_proxy
SubnetReset ==
    last_subnet_reset' = IF now - last_subnet_reset > 60 * Minute THEN now
                         ELSE last_subnet_reset

\* get_proxy, some proxy is available: it is selected and returned
AdaptiveGetProxyReturns(context, p) ==
    /\ adaptive_available_proxies(now, context) # <<>>
    /\ p \in TopChoice(adaptive_available_proxies(now, context), 5)
    /\ proxy_stats' = [proxy_stats EXCEPT ![p].last_used = now, ![p].requests = @ + 1]
    /\ LET subnet == proxy_details[p].subnet
           usage == SubnetUsage(now)
       IN  subnet_usage' = [x \in DOMAIN usage \cup {subnet} |->
                               IF x = subnet THEN UsageOf(usage, x) + 1 ELSE usage[x]]
    /\ SubnetReset
    /\ last_get' = [ended |-> TRUE, returned |-> TRUE, proxy |-> p, reset |-> FALSE,
                    cooling |-> Cooling(now),
                    excluded |-> LastProxyOfRetry(context),
                    ranking |-> Ranking(adaptive_available_proxies(now, context))]

\* get_proxy, no proxy is available: all cooldowns are cleared and
\* random.choice(self.proxies) is returned, None (proxy 0) when there are none
AdaptiveGetProxyEmergency(context, p) ==
    /\ adaptive_available_proxies(now, context) = <<>>
    /\ IF proxy_details = <<>> THEN p = 0 ELSE p \in DOMAIN proxy_details
    /\ proxy_stats' = [q \in DOMAIN proxy_stats |->
                          [proxy_stats[q] EXCEPT !.cooldown_until = NoTime]]
    /\ subnet_usage' = SubnetUsage(now)
    /\ SubnetReset
    /\ last_get' = [ended |-> TRUE, returned |-> TRUE, proxy |-> p, reset |-> TRUE,
                    cooling |-> Cooling(now),
                    excluded |-> LastProxyOfRetry(context),
                    ranking |-> <<>>]

\* record_success
AdaptiveRecordSuccess(p) ==
    proxy_stats' = [proxy_stats EXCEPT
        ![p].successes = @ + 1,
        ![p].last_success = now,
        ![p].cooldown_until = NoTime]

\* cooldown_minutes of record_failure
cooldown_minutes_Linear(failures, requests, bot_detections, bot_detected) ==
    IF bot_detected THEN Min2(60, 10 * bot_detections)
    ELSE IF 10 * failures > 8 * Max2(requests, 1) THEN 30
    ELSE IF 10 * failures > 5 * Max2(requests, 1) THEN 10
    ELSE 2

cooldown_minutes(failures, requests, bot_detections, bot_detected) ==
    IF bot_detected THEN Min2(60, 10 * bot_detections * bot_detections)
    ELSE IF 10 * failures > 8 * Max2(requests, 1) THEN 30
    ELSE IF 10 * failures > 5 * Max2(requests, 1) THEN 10
    ELSE 2

\* record_failure
AdaptiveRecordFailure(p, bot_detected) ==
    LET stats == proxy_stats[p]
        detections == stats.bot_detections + (IF bot_detected THEN 1 ELSE 0)
    IN  proxy_stats' = [proxy_stats EXCEPT
            ![p].failures = @ + 1,
            ![p].bot_detections = detections,
            ![p].cooldown_until =
                now + Minute * cooldown_minutes(stats.failures + 1, stats.requests,
                                                detections, bot_detected)]

-----------------------------------------------------------------------------
(* A proxy manager under any sequence of calls *)

\* how far the clock moves between two calls: below and beyond the cooldowns of
\* record_failure
TickSteps == {Minute, 30 * Minute}

\* the two proxy manager classes
Managers == {"enhanced", "adaptive"}

ProxyInit ==
    /\ manager \in Managers
    /\ proxy_details \in ProxyFiles
    /\ proxy_stats = [p \in DOMAIN proxy_details |->
                         DefaultStats(proxy_details[p].walmart_score)]
    /\ walmart_blocked_ips = {}
    /\ subnet_usage = <<>>
    /\ last_subnet_reset = 0
    /\ lock = "free"
    /\ now = 0
    /\ ops = 0
    /\ bot_reports = [p \in Proxies |-> 0]
    /\ last_get = NoGet

\* one more call of a method of the manager of class class
Call(class) ==
    /\ ops < MaxOps
    /\ manager = class
    /\ ops' = ops + 1
    /\ UNCHANGED <<manager, proxy_details, now>>
    /\ UNCHANGED <<schedVars, poolVars, basicVars, callVars, funVars>>

EnhancedGet(context, p) ==
    /\ Call("enhanced")
    /\ EnhancedGetProxyReturns(context, p)
    /\ UNCHANGED <<subnet_usage, last_subnet_reset, bot_reports>>

EnhancedGetHangs(context) ==
    /\ Call("enhanced")
    /\ EnhancedGetProxyResets(context)
    /\ UNCHANGED <<subnet_usage, last_subnet_reset, bot_reports>>

EnhancedSuccess(p) ==
    /\ Call("enhanced")
    /\ p \in DOMAIN proxy_details
    /\ EnhancedRecordSuccess(p)
    /\ last_get' = NoGet
    /\ UNCHANGED <<subnet_usage, last_subnet_reset, bot_reports>>

EnhancedFailure(p, is_bot_detection) ==
    /\ Call("enhanced")
    /\ p \in DOMAIN proxy_details
    /\ EnhancedRecordFailure(p, is_bot_detection)
    /\ bot_reports' = [bot_reports EXCEPT
                          ![p] = IF is_bot_detection THEN @ + 1 ELSE @]
    /\ last_get' = NoGet
    /\ UNCHANGED <<subnet_usage, last_subnet_reset>>

AdaptiveGet(context, p) ==
    /\ Call("adaptive")
    /\ AdaptiveGetProxyReturns(context, p)
    /\ UNCHANGED <<walmart_blocked_ips, lock, bot_reports>>

AdaptiveGetEmergency(context, p) ==
    /\ Call("adaptive")
    /\ AdaptiveGetProxyEmergency(context, p)
    /\ UNCHANGED <<walmart_blocked_ips, lock, bot_reports>>

AdaptiveSuccess(p) ==
    /\ Call("adaptive")
    /\ p \in DOMAIN proxy_details
    /\ AdaptiveRecordSuccess(p)
    /\ last_get' = NoGet
    /\ UNCHANGED <<walmart_blocked_ips, subnet_usage, last_subnet_reset, lock,
                   bot_reports>>

AdaptiveFailure(p, bot_detected) ==
    /\ Call("adaptive")
    /\ p \in DOMAIN proxy_details
    /\ AdaptiveRecordFailure(p, bot_detected)
    /\ bot_reports' = [bot_reports EXCEPT ![p] = IF bot_detected THEN @ + 1 ELSE @]
    /\ last_get' = NoGet
    /\ UNCHANGED <<walmart_blocked_ips, subnet_usage, last_subnet_reset, lock>>

\* time passes
Tick(d) ==
    /\ ops < MaxOps
    /\ ops' = ops + 1
    /\ now' = now + d
    /\ last_get' = NoGet
    /\ UNCHANGED <<manager, proxy_details, proxy_stats, walmart_blocked_ips,
                   subnet_usage, last_subnet_reset, lock, bot_reports>>
    /\ UNCHANGED <<schedVars, poolVars, basicVars, callVars, funVars>>

ProxyNext ==
    \/ \E context \in Contexts, p \in Proxies : EnhancedGet(context, p)
    \/ \E context \in Contexts : EnhancedGetHangs(context)
    \/ \E p \in Proxies : EnhancedSuccess(p)
    \/ \E p \in Proxies, is_bot_detection \in BOOLEAN : EnhancedFailure(p, is_bot_detection)
    \/ \E context \in Contexts, p \in Proxies : AdaptiveGet(context, p)
    \/ \E context \in Contexts, p \in {0} \cup Proxies : AdaptiveGetEmergency(context, p)
    \/ \E p \in Proxies : AdaptiveSuccess(p)
    \/ \E p \in Proxies, bot_detected \in BOOLEAN : AdaptiveFailure(p, bot_detected)
    \/ \E d \in TickSteps : Tick(d)

-----------------------------------------------------------------------------
(* Bounds of the browser pool model *)

MaxPoolSize == 2
NumWorkers == 2
MaxRequests == 4
MaxTicks == 1
NumRandomIndexes == 2

\* process_request rotates the proxy of a browser that has served more than 10
\* requests and _release_enhanced_browser recreates a failed browser that has
\* served more than 100: the model keeps the order of the two thresholds and
\* scales them down; rotate_after ranges over 0..RotateAfter, so that a session
\* rotates before every fetch but its first (0) or serves two fetches between
\* rotations (RotateAfter)
RotateAfter == 1
RecreateAfter == 1

Workers == 1..NumWorkers

\* random.randint(1000, 9999): the first NumRandomIndexes of its values
ReplacementIndexes == 1000..(1000 + NumRandomIndexes - 1)

-----------------------------------------------------------------------------
(* EnhancedProxyBrowserMiddleware *)

\* what no call of a pool step changes in the proxy manager
managerRest == <<manager, proxy_details, subnet_usage, last_subnet_reset, ops, bot_reports,
                 basicVars>>

\* a step that calls no method of the proxy manager
NoManagerCall ==
    /\ UNCHANGED <<proxy_stats, walmart_blocked_ips, lock>>
    /\ UNCHANGED managerRest
    /\ last_get' = NoGet

Idle == [pc |-> "idle", object |-> 0, retry_count |-> 0, result |-> "none",
         challenged |-> FALSE, counted |-> FALSE, reports |-> <<>>]

NoRelease == [ended |-> FALSE, challenged |-> FALSE, counted |-> FALSE,
              requeued |-> FALSE, replaced |-> FALSE]

PoolInit ==
    /\ browser_pool_size \in 1..MaxPoolSize
    /\ rotate_after \in 0..RotateAfter
    /\ opened = "no"
    /\ spawned = 0
    /\ threads = {}
    /\ init_lock = 0
    /\ browser_pool = <<>>
    /\ browser_info = <<>>
    /\ next_object = 1
    /\ browser_sessions = {}
    /\ workers = [w \in Workers |-> Idle]
    /\ requests_made = 0
    /\ ticks = 0
    /\ last_release = NoRelease

\* range(self.browser_pool_size) of spider_opened
StartupIndexes_OneMore == 0..browser_pool_size

StartupIndexes == 0..(browser_pool_size - 1)

\* threading.Thread(target=self._create_enhanced_browser, args=(index, proxy))
Thread(index, proxy, startup) ==
    [object |-> next_object, index |-> index, proxy |-> proxy, startup |-> startup]

\* spider_opened, one turn of its loop: a proxy is selected and a creation
\* thread is started
SpiderOpenedSpawn(p) ==
    /\ opened \in {"no", "opening"}
    /\ spawned \in StartupIndexes
    /\ EnhancedGetProxyReturns(NoContext, p)
    /\ opened' = "opening"
    /\ spawned' = spawned + 1
    /\ threads' = threads \cup {Thread(spawned, p, TRUE)}
    /\ UNCHANGED init_lock
    /\ next_object' = next_object + 1
    /\ last_release' = NoRelease
    /\ UNCHANGED <<browser_pool_size, rotate_after, browser_pool, browser_info, browser_sessions,
                   workers, requests_made, ticks>>
    /\ UNCHANGED <<managerRest, now>>
    /\ UNCHANGED <<schedVars, callVars, funVars>>

\* spider_opened, get_proxy finds no proxy available and never returns
SpiderOpenedHangs ==
    /\ opened \in {"no", "opening"}
    /\ spawned \in StartupIndexes
    /\ EnhancedGetProxyResets(NoContext)
    /\ opened' = "hung"
    /\ last_release' = NoRelease
    /\ UNCHANGED <<browser_pool_size, rotate_after, spawned, threads, init_lock, browser_pool, browser_info,
                   next_object, browser_sessions, workers, requests_made, ticks>>
    /\ UNCHANGED <<managerRest, now>>
    /\ UNCHANGED <<schedVars, callVars, funVars>>

\* the identifier _create_enhanced_browser gives a session:
\* f"session_{index}_{int(time.time())}"
session_id(index, t) == <<index, t>>

\* _create_advanced_browser, 'with self._init_lock': the thread enters uc.Chrome
\* when no other creation is inside it
CreateAdvancedBrowserLocks(th) ==
    /\ th \in threads
    /\ init_lock = 0
    /\ init_lock' = th.object
    /\ last_release' = NoRelease
    /\ UNCHANGED <<browser_pool_size, rotate_after, opened, spawned, threads, browser_pool, browser_info,
                   next_object, browser_sessions, workers, requests_made, ticks>>
    /\ NoManagerCall
    /\ UNCHANGED now
    /\ UNCHANGED <<schedVars, callVars, funVars>>

\* _create_enhanced_browser, the driver was created: uc.Chrome returns, the
\* lock is released, the session is put into the pool (put waits while the
\* pool is full) and registered
CreateEnhancedBrowser(th) ==
    /\ th \in threads
    /\ init_lock = th.object
    /\ Len(browser_pool) < browser_pool_size
    /\ threads' = threads \ {th}
    /\ init_lock' = 0
    /\ browser_info' = browser_info @@
           (th.object :> [driver |-> "running", proxy |-> th.proxy, warmed_up |-> FALSE,
                          request_count |-> 0,
                          session_id |-> session_id(th.index, now)])
    /\ browser_pool' = Append(browser_pool, th.object)
    /\ browser_sessions' = browser_sessions \cup {session_id(th.index, now)}
    /\ last_release' = NoRelease
    /\ UNCHANGED <<browser_pool_size, rotate_after, opened, spawned, next_object, workers,
                   requests_made, ticks>>
    /\ NoManagerCall
    /\ UNCHANGED now
    /\ UNCHANGED <<schedVars, callVars, funVars>>

\* _create_enhanced_browser, _create_advanced_browser returned None or an
\* exception was raised: the thread ends without a session
CreateEnhancedBrowserFails(th) ==
    /\ th \in threads
    /\ threads' = threads \ {th}
    /\ init_lock' = IF init_lock = th.object THEN 0 ELSE init_lock
    /\ last_release' = NoRelease
    /\ UNCHANGED <<browser_pool_size, rotate_after, opened, spawned, browser_pool, browser_info,
                   next_object, browser_sessions, workers, requests_made, ticks>>
    /\ NoManagerCall
    /\ UNCHANGED now
    /\ UNCHANGED <<schedVars, callVars, funVars>>

\* spider_opened after its loop: the threads are joined, RuntimeError if the pool
\* is empty
SpiderOpenedJoin ==
    /\ opened = "opening"
    /\ spawned \notin StartupIndexes
    /\ \A th \in threads : ~th.startup
    /\ opened' = IF browser_pool = <<>> THEN "failed" ELSE "yes"
    /\ last_release' = NoRelease
    /\ UNCHANGED <<browser_pool_size, rotate_after, spawned, threads, init_lock, browser_pool, browser_info,
                   next_object, browser_sessions, workers, requests_made, ticks>>
    /\ NoManagerCall
    /\ UNCHANGED now
    /\ UNCHANGED <<schedVars, callVars, funVars>>

\* process_request is called in the reactor thread and runs the fetch and its
\* release before it returns (defer.maybeDeferred calls the function at once):
\* a request enters process_request when no other request is inside
InReactorThread_OwnThread(w) == TRUE

InReactorThread(w) == \A v \in Workers \ {w} : workers[v].pc = "idle"

\* request.meta.get('retry_count', 0): nothing in the program sets the key, so
\* every request reads the default
RetryCounts == {0}

\* process_request, self.browser_pool.get: the first session of the pool is
\* checked out for a request whose meta hold retry_count; the requests in
\* flight are interchangeable, so the first free slot takes the new one
Acquire(w, retry_count) ==
    /\ opened = "yes"
    /\ workers[w].pc = "idle"
    /\ InReactorThread(w)
    /\ \A v \in Workers : v < w => workers[v].pc # "idle"
    /\ requests_made < MaxRequests
    /\ browser_pool # <<>>
    /\ workers' = [workers EXCEPT ![w] = [Idle EXCEPT !.pc = "acquired",
                                                      !.object = Head(browser_pool),
                                                      !.retry_count = retry_count]]
    /\ browser_pool' = Tail(browser_pool)
    /\ requests_made' = requests_made + 1
    /\ last_release' = NoRelease
    /\ UNCHANGED <<browser_pool_size, rotate_after, opened, spawned, threads, init_lock, browser_info,
                   next_object, browser_sessions, ticks>>
    /\ NoManagerCall
    /\ UNCHANGED now
    /\ UNCHANGED <<schedVars, callVars, funVars>>

\* process_request, queue.Empty: no session was put into the pool during the 300
\* seconds of self.browser_pool.get, IgnoreRequest is raised
AcquireTimesOut(w) ==
    /\ opened = "yes"
    /\ workers[w].pc = "idle"
    /\ InReactorThread(w)
    /\ \A v \in Workers : v < w => workers[v].pc # "idle"
    /\ requests_made < MaxRequests
    /\ browser_pool = <<>>
    /\ workers' = [workers EXCEPT ![w] = [Idle EXCEPT !.result = "IgnoreRequest"]]
    /\ requests_made' = requests_made + 1
    /\ last_release' = NoRelease
    /\ UNCHANGED <<browser_pool_size, rotate_after, opened, spawned, threads, init_lock, browser_pool, browser_info,
                   next_object, browser_sessions, ticks>>
    /\ NoManagerCall
    /\ UNCHANGED now
    /\ UNCHANGED <<schedVars, callVars, funVars>>

\* browser_info.get("request_count", 0) > 10 or retry_count > 0
ShouldRotate(w) ==
    \/ browser_info[workers[w].object].request_count > rotate_after
    \/ workers[w].retry_count > 0

\* what no step of a request changes in the pool but the sessions and the workers
requestRest == <<browser_pool_size, rotate_after, opened, spawned, threads, init_lock, browser_pool,
                 next_object,
                 browser_sessions, requests_made, ticks>>

\* process_request, no rotation: the request is counted
KeepProxy(w) ==
    /\ workers[w].pc = "acquired"
    /\ ~ShouldRotate(w)
    /\ browser_info' = [browser_info EXCEPT ![workers[w].object].request_count = @ + 1]
    /\ workers' = [workers EXCEPT ![w].pc = "ready"]
    /\ last_release' = NoRelease
    /\ UNCHANGED requestRest
    /\ NoManagerCall
    /\ UNCHANGED now
    /\ UNCHANGED <<schedVars, callVars, funVars>>

\* process_request, rotation: get_proxy returns new_proxy; if it differs from the
\* proxy of the session the driver is quit and a new one is created by
\* _create_advanced_browser, which waits for self._init_lock and succeeds
\* (created) or not; then the request is counted
RotateProxy(w, new_proxy, created) ==
    /\ workers[w].pc = "acquired"
    /\ ShouldRotate(w)
    /\ EnhancedGetProxyReturns(NoContext, new_proxy)
    /\ new_proxy # browser_info[workers[w].object].proxy => init_lock = 0
    /\ LET object == workers[w].object
           info == browser_info[object]
       IN
       IF new_proxy # info.proxy
       THEN browser_info' = [browser_info EXCEPT ![object] =
                IF created
                THEN [info EXCEPT !.driver = "running", !.proxy = new_proxy,
                                  !.request_count = 1, !.warmed_up = FALSE]
                ELSE [info EXCEPT !.driver = "quit", !.request_count = @ + 1]]
       ELSE /\ created
            /\ browser_info' = [browser_info EXCEPT ![object].request_count = @ + 1]
    /\ workers' = [workers EXCEPT ![w].pc = "ready"]
    /\ last_release' = NoRelease
    /\ UNCHANGED requestRest
    /\ UNCHANGED <<managerRest, now>>
    /\ UNCHANGED <<schedVars, callVars, funVars>>

\* process_request, rotation: get_proxy finds no proxy available and never returns
RotateHangs(w) ==
    /\ workers[w].pc = "acquired"
    /\ ShouldRotate(w)
    /\ EnhancedGetProxyResets(NoContext)
    /\ workers' = [workers EXCEPT ![w].pc = "stuck in process_request"]
    /\ last_release' = NoRelease
    /\ UNCHANGED <<requestRest, browser_info>>
    /\ UNCHANGED <<managerRest, now>>
    /\ UNCHANGED <<schedVars, callVars, funVars>>

\* the parameters of EnhancedProxyManager.record_failure
RecordFailureParameters == {"proxy", "is_bot_detection"}

\* the keyword _execute_enhanced_request passes to record_failure when it finds a
\* bot challenge: record_failure(proxy, bot_detected=True)
BotDetectionKeyword == "bot_detected"

\* a call with a keyword the method does not have raises TypeError
Accepts(parameters, keyword) == keyword \in parameters

\* what a fetch finds
Outcomes == {"page", "challenge", "error", "page lost"}

\* _execute_enhanced_request: the page is fetched with the session's driver.
\*  - a page: record_success, the response is the result;
\*  - a bot challenge: record_failure(proxy, bot_detected=True) and
\*    BotDetectionError; when record_failure does not accept the keyword the call
\*    raises TypeError, which the handler for Exception answers with
\*    record_failure(proxy) and raises again;
\*  - any other exception (always so when the driver was quit): record_failure(proxy)
\*  - a page whose driver.page_source raises when the response is built, after
\*    record_success: the handler for Exception calls record_failure(proxy) too.
\* reports: the calls that have recorded an outcome for the proxy
ExecuteEnhancedRequest(w, outcome) ==
    /\ workers[w].pc = "ready"
    /\ LET object == workers[w].object
           info == browser_info[object]
           counted == Accepts(RecordFailureParameters, BotDetectionKeyword)
       IN
       /\ info.driver = "quit" => outcome = "error"
       /\ browser_info' = [browser_info EXCEPT ![object].warmed_up = TRUE]
       /\ CASE outcome = "page" ->
                 /\ EnhancedRecordSuccess(info.proxy)
                 /\ workers' = [workers EXCEPT ![w].pc = "fetched",
                                               ![w].result = "response",
                                               ![w].reports = <<"record_success">>]
            [] outcome = "challenge" ->
                 /\ EnhancedRecordFailure(info.proxy, counted)
                 /\ workers' = [workers EXCEPT
                        ![w].pc = "fetched",
                        ![w].result = IF counted THEN "BotDetectionError" ELSE "TypeError",
                        ![w].challenged = TRUE,
                        ![w].counted = counted,
                        ![w].reports = <<"record_failure">>]
            [] outcome = "error" ->
                 /\ EnhancedRecordFailure(info.proxy, FALSE)
                 /\ workers' = [workers EXCEPT ![w].pc = "fetched",
                                               ![w].result = "Exception",
                                               ![w].reports = <<"record_failure">>]
            [] outcome = "page lost" ->
                 /\ EnhancedRecordSuccessThenFailure(info.proxy)
                 /\ workers' = [workers EXCEPT
                        ![w].pc = "fetched",
                        ![w].result = "Exception",
                        ![w].reports = <<"record_success", "record_failure">>]
    /\ last_get' = NoGet
    /\ last_release' = NoRelease
    /\ UNCHANGED requestRest
    /\ UNCHANGED <<managerRest, now>>
    /\ UNCHANGED <<schedVars, callVars, funVars>>

\* _release_enhanced_browser after a BotDetectionError: cookies, warm-up and
\* request count of the session are reset
Recovered(info, result) ==
    IF result = "BotDetectionError"
    THEN [info EXCEPT !.warmed_up = FALSE, !.request_count = 0]
    ELSE info

\* _release_enhanced_browser: the browser is recreated
\* (request_count > 100 or BotDetectionError, on a failure)
ShouldRecreate(info, result) ==
    /\ result # "response"
    /\ \/ Recovered(info, result).request_count > RecreateAfter
       \/ result = "BotDetectionError"

LastRelease(w, requeued, replaced) ==
    [ended |-> TRUE, challenged |-> workers[w].challenged,
     counted |-> workers[w].counted, requeued |-> requeued, replaced |-> replaced]

\* _release_enhanced_browser: the session goes back to the pool
ReleaseToPool(w) ==
    /\ workers[w].pc = "fetched"
    /\ LET object == workers[w].object
           info == browser_info[object]
       IN
       /\ ~ShouldRecreate(info, workers[w].result)
       /\ Len(browser_pool) < browser_pool_size
       /\ browser_info' = [browser_info EXCEPT ![object] = Recovered(info, workers[w].result)]
       /\ browser_pool' = Append(browser_pool, object)
    /\ workers' = [workers EXCEPT ![w] = Idle]
    /\ last_release' = LastRelease(w, TRUE, FALSE)
    /\ UNCHANGED <<browser_pool_size, rotate_after, opened, spawned, threads, init_lock, next_object,
                   browser_sessions, requests_made, ticks>>
    /\ NoManagerCall
    /\ UNCHANGED now
    /\ UNCHANGED <<schedVars, callVars, funVars>>

\* the browser_info objects without one
Without(object) == [o \in DOMAIN browser_info \ {object} |-> browser_info[o]]

\* _release_enhanced_browser: the driver is quit, a proxy is selected and a
\* thread is started that creates the replacement, with a random index
ReleaseReplace(w, new_proxy, index) ==
    /\ workers[w].pc = "fetched"
    /\ ShouldRecreate(browser_info[workers[w].object], workers[w].result)
    /\ EnhancedGetProxyReturns(NoContext, new_proxy)
    /\ browser_info' = Without(workers[w].object)
    /\ threads' = threads \cup {Thread(index, new_proxy, FALSE)}
    /\ UNCHANGED init_lock
    /\ next_object' = next_object + 1
    /\ workers' = [workers EXCEPT ![w] = Idle]
    /\ last_release' = LastRelease(w, FALSE, TRUE)
    /\ UNCHANGED <<browser_pool_size, rotate_after, opened, spawned, browser_pool, browser_sessions,
                   requests_made, ticks>>
    /\ UNCHANGED <<managerRest, now>>
    /\ UNCHANGED <<schedVars, callVars, funVars>>

\* _release_enhanced_browser: the driver is quit, get_proxy finds no proxy
\* available and never returns
ReleaseReplaceHangs(w) ==
    /\ workers[w].pc = "fetched"
    /\ ShouldRecreate(browser_info[workers[w].object], workers[w].result)
    /\ EnhancedGetProxyResets(NoContext)
    /\ browser_info' = Without(workers[w].object)
    /\ workers' = [workers EXCEPT ![w].pc = "stuck in release", ![w].object = 0]
    /\ last_release' = NoRelease
    /\ UNCHANGED <<browser_pool_size, rotate_after, opened, spawned, threads, init_lock, browser_pool,
                   next_object, browser_sessions, requests_made, ticks>>
    /\ UNCHANGED <<managerRest, now>>
    /\ UNCHANGED <<schedVars, callVars, funVars>>

\* spider_closed, sent when no request is in progress: the statistics are saved
\* (save_stats takes the lock of the manager), the sessions of the pool are taken
\* out and their drivers quit, the Chrome processes are killed. The creation
\* threads are not joined.
SpiderClosed ==
    /\ opened = "yes"
    /\ \A w \in Workers : workers[w].pc = "idle"
    /\ lock = "free"
    /\ opened' = "closed"
    /\ browser_pool' = <<>>
    /\ browser_info' = <<>>
    /\ last_release' = NoRelease
    /\ UNCHANGED <<browser_pool_size, rotate_after, spawned, threads, init_lock, next_object, browser_sessions,
                   workers, requests_made, ticks>>
    /\ NoManagerCall
    /\ UNCHANGED now
    /\ UNCHANGED <<schedVars, callVars, funVars>>

\* time passes
PoolTick(d) ==
    /\ ticks < MaxTicks
    /\ ticks' = ticks + 1
    /\ now' = now + d
    /\ last_release' = NoRelease
    /\ UNCHANGED <<browser_pool_size, rotate_after, opened, spawned, threads, init_lock, browser_pool,
                   browser_info, next_object, browser_sessions, workers, requests_made>>
    /\ NoManagerCall
    /\ UNCHANGED <<schedVars, callVars, funVars>>

PoolNext ==
    \/ \E p \in Proxies : SpiderOpenedSpawn(p)
    \/ SpiderOpenedHangs
    \/ \E th \in threads : CreateAdvancedBrowserLocks(th)
    \/ \E th \in threads : CreateEnhancedBrowser(th)
    \/ \E th \in threads : CreateEnhancedBrowserFails(th)
    \/ SpiderOpenedJoin
    \/ \E w \in Workers, retry_count \in RetryCounts : Acquire(w, retry_count)
    \/ \E w \in Workers : AcquireTimesOut(w)
    \/ \E w \in Workers : KeepProxy(w)
    \/ \E w \in Workers, p \in Proxies, created \in BOOLEAN : RotateProxy(w, p, created)
    \/ \E w \in Workers : RotateHangs(w)
    \/ \E w \in Workers, outcome \in Outcomes : ExecuteEnhancedRequest(w, outcome)
    \/ \E w \in Workers : ReleaseToPool(w)
    \/ \E w \in Workers, p \in Proxies, index \in ReplacementIndexes :
           ReleaseReplace(w, p, index)
    \/ \E w \in Workers : ReleaseReplaceHangs(w)
    \/ SpiderClosed
    \/ \E d \in TickSteps : PoolTick(d)

\* the middleware before the spider is opened
PoolOff ==
    /\ browser_pool_size = 1
    /\ rotate_after = 0
    /\ opened = "no"
    /\ spawned = 0
    /\ threads = {}
    /\ init_lock = 0
    /\ browser_pool = <<>>
    /\ browser_info = <<>>
    /\ next_object = 1
    /\ browser_sessions = {}
    /\ workers = [w \in Workers |-> Idle]
    /\ requests_made = 0
    /\ ticks = 0
    /\ last_release = NoRelease

-----------------------------------------------------------------------------
(* ProxyManager (helpers.py), the proxy manager of UnifiedProxyBrowserMiddleware.
   A proxy url is the position of its object in the proxy file; None is 0.
   Scores are kept in tenths. *)

\* the objects a proxy file can hold
ProxyObjects == {
    [protocol |-> "http", is_residential |-> TRUE, quality_score |-> 8],
    [protocol |-> "http", is_residential |-> FALSE, quality_score |-> 12],
    [protocol |-> "socks5", is_residential |-> FALSE, quality_score |-> 20] }

JsonFiles == UNION {[1..n -> ProxyObjects] : n \in 0..NumProxies}

\* _load_and_sort_proxies: SOCKS proxies are skipped
Loaded(file) == {i \in DOMAIN file : file[i].protocol \notin {"socks", "socks4", "socks5"}}

\* _load_and_sort_proxies: the quality class of a proxy object
QualityClass(object) ==
    IF object.is_residential THEN "residential"
    ELSE IF object.quality_score >= 10 THEN "high"
    ELSE IF object.quality_score >= 5 THEN "medium"
    ELSE "low"

\* _load_and_sort_proxies: the urls of one quality class, in file order
OfClass(file, class) ==
    SelectSeq([i \in 1..Len(file) |-> i],
              LAMBDA i : i \in Loaded(file) /\ QualityClass(file[i]) = class)

\* _load_and_sort_proxies: self.proxies, residential proxies first, then the
\* datacenter proxies of high, medium and low quality
load_and_sort_proxies(file) ==
    OfClass(file, "residential") \o OfClass(file, "high")
        \o OfClass(file, "medium") \o OfClass(file, "low")

\* ProxyManager.__init__
ProxyManagerInit ==
    \E file \in JsonFiles :
        /\ proxy_by_url = [u \in Loaded(file) |-> file[u]]
        /\ proxies_by_priority = load_and_sort_proxies(file)
        /\ proxy_scores = [u \in Loaded(file) |-> 10 * file[u].quality_score]
        /\ failed_proxies = {}

\* self.proxy_scores.get(url, 0)
ScoreOf(scores, url) == IF url \in DOMAIN scores THEN scores[url] ELSE 0

\* get_proxy: the urls that have not failed
Unfailed == SelectSeq(proxies_by_priority, LAMBDA url : url \notin failed_proxies)

\* get_proxy: the scores of all proxies are reset to their quality_score
ResetScores ==
    [url \in DOMAIN proxy_scores |->
        IF url \in Range(proxies_by_priority)
        THEN 10 * proxy_by_url[url].quality_score
        ELSE proxy_scores[url]]

\* available_proxies.sort(key=score, reverse=True)[0]: the first url of the
\* highest score (the sort is stable)
Best(available, scores) ==
    available[CHOOSE i \in DOMAIN available :
                  \A j \in DOMAIN available :
                      \/ ScoreOf(scores, available[j]) < ScoreOf(scores, available[i])
                      \/ /\ ScoreOf(scores, available[j]) = ScoreOf(scores, available[i])
                         /\ i <= j]

\* get_proxy returns url, or None (0) when no proxy is loaded
ProxyManagerGetProxy(url) ==
    LET reset == Unfailed = <<>>
        available == IF reset THEN proxies_by_priority ELSE Unfailed
        scores == IF reset THEN ResetScores ELSE proxy_scores
    IN
    /\ url = IF available = <<>> THEN 0 ELSE Best(available, scores)
    /\ failed_proxies' = IF reset THEN {} ELSE failed_proxies
    /\ proxy_scores' = IF url = 0 THEN scores
                       ELSE [scores EXCEPT ![url] = Max2(0, @ - 1)]
    /\ UNCHANGED <<proxy_by_url, proxies_by_priority>>

\* scores with the score of url set (the key is added when it is missing)
WithScore(url, score) ==
    [u \in DOMAIN proxy_scores \cup {url} |-> IF u = url THEN score ELSE proxy_scores[u]]

\* record_failure
ProxyManagerRecordFailure(url) ==
    /\ failed_proxies' = failed_proxies \cup {url}
    /\ proxy_scores' = WithScore(url, Max2(-100, ScoreOf(proxy_scores, url) - 50))
    /\ UNCHANGED <<proxy_by_url, proxies_by_priority>>

\* record_success
ProxyManagerRecordSuccess(url) ==
    /\ failed_proxies' = failed_proxies \ {url}
    /\ proxy_scores' = WithScore(url, ScoreOf(proxy_scores, url) + 20)
    /\ UNCHANGED <<proxy_by_url, proxies_by_priority>>

\* record_success and then record_failure for the same proxy, within one fetch
ProxyManagerRecordSuccessThenFailure(url) ==
    /\ failed_proxies' = failed_proxies \cup {url}
    /\ proxy_scores' = WithScore(url, Max2(-100, ScoreOf(proxy_scores, url) + 20 - 50))
    /\ UNCHANGED <<proxy_by_url, proxies_by_priority>>

-----------------------------------------------------------------------------
(* UnifiedProxyBrowserMiddleware (middlewares.py); its pool is held in the
   variables of the browser pool *)

\* what no step of the unified middleware changes
unifiedRest == <<schedVars, callVars, funVars, proxyVars, browser_pool_size, rotate_after,
                browser_sessions, ticks,
                 last_release>>

UnifiedInit ==
    /\ ProxyManagerInit
    /\ browser_pool_size \in 1..MaxPoolSize
    /\ rotate_after = 0
    /\ opened = "no"
    /\ spawned = 0
    /\ threads = {}
    /\ init_lock = 0
    /\ browser_pool = <<>>
    /\ browser_info = <<>>
    /\ next_object = 1
    /\ browser_sessions = {}
    /\ workers = [w \in Workers |-> Idle]
    /\ requests_made = 0
    /\ ticks = 0
    /\ last_release = NoRelease

\* spider_opened, one turn of its loop: proxy = self.proxy_manager.get_proxy() and
\* a thread is started with it, whatever it is
UnifiedSpiderOpenedSpawn(proxy) ==
    /\ opened \in {"no", "opening"}
    /\ spawned \in StartupIndexes
    /\ ProxyManagerGetProxy(proxy)
    /\ opened' = "opening"
    /\ spawned' = spawned + 1
    /\ threads' = threads \cup {Thread(spawned, proxy, TRUE)}
    /\ UNCHANGED init_lock
    /\ next_object' = next_object + 1
    /\ UNCHANGED <<browser_pool, browser_info, workers, requests_made>>
    /\ UNCHANGED unifiedRest

\* _create_browser_instance: options.proxy is set only "if proxy:"
DriverProxy(proxy) == IF proxy # 0 THEN "proxied" ELSE "direct"

\* _create_and_add_browser_to_pool, the driver was created: the session is put
\* into the pool
CreateAndAddBrowserToPool(th) ==
    /\ th \in threads
    /\ UNCHANGED init_lock
    /\ Len(browser_pool) < browser_pool_size
    /\ threads' = threads \ {th}
    /\ browser_info' = browser_info @@
           (th.object :> [driver |-> DriverProxy(th.proxy), proxy |-> th.proxy,
                          warmed_up |-> FALSE])
    /\ browser_pool' = Append(browser_pool, th.object)
    /\ UNCHANGED <<opened, spawned, next_object, workers, requests_made>>
    /\ UNCHANGED basicVars
    /\ UNCHANGED unifiedRest

\* _create_and_add_browser_to_pool, no driver was created
CreateAndAddBrowserToPoolFails(th) ==
    /\ th \in threads
    /\ UNCHANGED init_lock
    /\ threads' = threads \ {th}
    /\ UNCHANGED <<opened, spawned, browser_pool, browser_info, next_object, workers,
                   requests_made>>
    /\ UNCHANGED basicVars
    /\ UNCHANGED unifiedRest

\* spider_opened after its loop: the threads are joined, RuntimeError if the pool
\* is empty
UnifiedSpiderOpenedJoin ==
    /\ opened = "opening"
    /\ spawned \notin StartupIndexes
    /\ \A th \in threads : ~th.startup
    /\ opened' = IF browser_pool = <<>> THEN "failed" ELSE "yes"
    /\ UNCHANGED <<spawned, threads, init_lock, browser_pool, browser_info, next_object, workers,
                   requests_made>>
    /\ UNCHANGED basicVars
    /\ UNCHANGED unifiedRest

\* process_request: a session is checked out of the pool
UnifiedProcessRequest(w) ==
    /\ opened = "yes"
    /\ workers[w].pc = "idle"
    /\ InReactorThread(w)
    /\ \A v \in Workers : v < w => workers[v].pc # "idle"
    /\ requests_made < MaxRequests
    /\ browser_pool # <<>>
    /\ workers' = [workers EXCEPT ![w] = [Idle EXCEPT !.pc = "ready",
                                                      !.object = Head(browser_pool)]]
    /\ browser_pool' = Tail(browser_pool)
    /\ requests_made' = requests_made + 1
    /\ UNCHANGED <<opened, spawned, threads, init_lock, browser_info, next_object>>
    /\ UNCHANGED basicVars
    /\ UNCHANGED unifiedRest

\* process_request, queue.Empty: IgnoreRequest is raised
UnifiedProcessRequestTimesOut(w) ==
    /\ opened = "yes"
    /\ workers[w].pc = "idle"
    /\ InReactorThread(w)
    /\ \A v \in Workers : v < w => workers[v].pc # "idle"
    /\ requests_made < MaxRequests
    /\ browser_pool = <<>>
    /\ workers' = [workers EXCEPT ![w] = [Idle EXCEPT !.result = "IgnoreRequest"]]
    /\ requests_made' = requests_made + 1
    /\ UNCHANGED <<opened, spawned, threads, init_lock, browser_pool, browser_info, next_object>>
    /\ UNCHANGED basicVars
    /\ UNCHANGED unifiedRest

\* _execute_browser_request: a page is answered with record_success, a bot
\* challenge with record_failure and BotDetectionError, any other exception
\* with record_failure; a page whose driver.page_source raises when the response
\* is built, after record_success, with record_failure too
ExecuteBrowserRequest(w, outcome) ==
    /\ workers[w].pc = "ready"
    /\ LET object == workers[w].object
           proxy == browser_info[object].proxy
       IN
       /\ browser_info' = [browser_info EXCEPT ![object].warmed_up = TRUE]
       /\ CASE outcome = "page" ->
                 /\ ProxyManagerRecordSuccess(proxy)
                 /\ workers' = [workers EXCEPT ![w].pc = "fetched",
                                               ![w].result = "response",
                                               ![w].reports = <<"record_success">>]
            [] outcome = "challenge" ->
                 /\ ProxyManagerRecordFailure(proxy)
                 /\ workers' = [workers EXCEPT ![w].pc = "fetched",
                                               ![w].result = "BotDetectionError",
                                               ![w].challenged = TRUE,
                                               ![w].counted = TRUE,
                                               ![w].reports = <<"record_failure">>]
            [] outcome = "error" ->
                 /\ ProxyManagerRecordFailure(proxy)
                 /\ workers' = [workers EXCEPT ![w].pc = "fetched",
                                               ![w].result = "Exception",
                                               ![w].reports = <<"record_failure">>]
            [] outcome = "page lost" ->
                 /\ ProxyManagerRecordSuccessThenFailure(proxy)
                 /\ workers' = [workers EXCEPT
                        ![w].pc = "fetched",
                        ![w].result = "Exception",
                        ![w].reports = <<"record_success", "record_failure">>]
    /\ UNCHANGED <<opened, spawned, threads, init_lock, browser_pool, next_object, requests_made>>
    /\ UNCHANGED unifiedRest

\* _release_browser, the request was successful: the session goes back to the pool
ReleaseBrowserToPool(w) ==
    /\ workers[w].pc = "fetched"
    /\ workers[w].result = "response"
    /\ Len(browser_pool) < browser_pool_size
    /\ browser_pool' = Append(browser_pool, workers[w].object)
    /\ workers' = [workers EXCEPT ![w] = Idle]
    /\ UNCHANGED <<opened, spawned, threads, init_lock, browser_info, next_object, requests_made>>
    /\ UNCHANGED basicVars
    /\ UNCHANGED unifiedRest

\* _release_browser, the request failed: the driver is quit and a thread is
\* started that creates the replacement with self.proxy_manager.get_proxy()
ReleaseBrowserReplace(w, proxy, index) ==
    /\ workers[w].pc = "fetched"
    /\ workers[w].result # "response"
    /\ ProxyManagerGetProxy(proxy)
    /\ browser_info' = Without(workers[w].object)
    /\ threads' = threads \cup {Thread(index, proxy, FALSE)}
    /\ UNCHANGED init_lock
    /\ next_object' = next_object + 1
    /\ workers' = [workers EXCEPT ![w] = Idle]
    /\ UNCHANGED <<opened, spawned, browser_pool, requests_made>>
    /\ UNCHANGED unifiedRest

\* spider_closed: the sessions of the pool are taken out and their drivers quit,
\* the Chrome processes are killed; the creation threads are not joined
UnifiedSpiderClosed ==
    /\ opened = "yes"
    /\ \A w \in Workers : workers[w].pc = "idle"
    /\ opened' = "closed"
    /\ browser_pool' = <<>>
    /\ browser_info' = <<>>
    /\ UNCHANGED <<spawned, threads, init_lock, next_object, workers, requests_made>>
    /\ UNCHANGED basicVars
    /\ UNCHANGED unifiedRest

UnifiedNext ==
    \/ \E proxy \in 0..NumProxies : UnifiedSpiderOpenedSpawn(proxy)
    \/ \E th \in threads : CreateAndAddBrowserToPool(th)
    \/ \E th \in threads : CreateAndAddBrowserToPoolFails(th)
    \/ UnifiedSpiderOpenedJoin
    \/ \E w \in Workers : UnifiedProcessRequest(w)
    \/ \E w \in Workers : UnifiedProcessRequestTimesOut(w)
    \/ \E w \in Workers, outcome \in Outcomes : ExecuteBrowserRequest(w, outcome)
    \/ \E w \in Workers : ReleaseBrowserToPool(w)
    \/ \E w \in Workers, proxy \in 0..NumProxies, index \in ReplacementIndexes :
           ReleaseBrowserReplace(w, proxy, index)
    \/ UnifiedSpiderClosed

\* no ProxyManager
ProxyManagerOff ==
    /\ proxy_by_url = <<>>
    /\ proxies_by_priority = <<>>
    /\ proxy_scores = <<>>
    /\ failed_proxies = {}

-----------------------------------------------------------------------------
(* Specifications *)

\* the manager before it is used
ProxyOff ==
    /\ manager = "enhanced"
    /\ proxy_details = <<>>
    /\ proxy_stats = <<>>
    /\ walmart_blocked_ips = {}
    /\ subnet_usage = <<>>
    /\ last_subnet_reset = 0
    /\ lock = "free"
    /\ now = 0
    /\ ops = 0
    /\ bot_reports = [p \in Proxies |-> 0]
    /\ last_get = NoGet

\* the spider before it is started
SchedOff ==
    /\ stores_file = <<>>
    /\ categories_file = 0
    /\ categories = 0
    /\ parallel_stores = 1
    /\ started = FALSE
    /\ stores_queue = <<>>
    /\ active_stores = 0
    /\ processed_stores = {}
    /\ store_category_status = <<>>
    /\ store_requests = {}
    /\ category_requests = NoRequests
    /\ pending_gens = 0
    /\ closed = FALSE
    /\ drained = [s \in StoreIds |-> 0]
    /\ zero_count = [s \in StoreIds |-> 0]
    /\ active_dec = [s \in StoreIds |-> 0]
    /\ idle_log = NoIdle
    /\ page_log = NoPage

(* Calls on the shared counters, statement by statement.  A call is a
   callback or a method run by one caller; "x += 1" is a load and a store, and
   "with self.lock" an acquire and a release.  Every caller of the manager and
   every callback of the spider runs in the reactor thread. *)

NumCallers == 2
MaxCalls == 4
CallParallel == 2
CallCategories == 1

Callers == 1..NumCallers

\* the store has no entry in store_category_status
NoCounter == -1

NoCall == [pc |-> "idle", op |-> "none", at |-> 0, reg |-> 0]

ZeroCounters ==
    [requests |-> 0, successes |-> 0, failures |-> 0, bot_detections |-> 0,
     consecutive_failures |-> 0, active_stores |-> 0,
     store_category_status |-> NoCounter]

CallsInit ==
    /\ callers = [c \in Callers |-> NoCall]
    /\ counters = ZeroCounters
    /\ sequential = ZeroCounters
    /\ locks = [l \in {"manager", "spider"} |-> 0]
    /\ calls_made = 0

CallOps ==
    {"get_proxy", "record_success", "record_failure", "record_bot_detection",
     "admission", "store_failure", "store_page", "category_complete"}

WithLock(l) == [kind |-> "acquire", lock |-> l, field |-> "", value |-> 0, else |-> 0]

EndWith(l) == [kind |-> "release", lock |-> l, field |-> "", value |-> 0, else |-> 0]

LoadOf(f) == [kind |-> "load", lock |-> "", field |-> f, value |-> 0, else |-> 0]

StorePlus(f, d) == [kind |-> "store", lock |-> "", field |-> f, value |-> d, else |-> 0]

Assign(f, v) == [kind |-> "assign", lock |-> "", field |-> f, value |-> v, else |-> 0]

IfNot(test, target) == [kind |-> "test", lock |-> "", field |-> test, value |-> 0, else |-> target]

\* the statements of a call on the counters
Program(op) ==
    CASE op = "get_proxy" ->
           <<WithLock("manager"), LoadOf("requests"), StorePlus("requests", 1),
             EndWith("manager")>>
      [] op = "record_success" ->
           <<WithLock("manager"), LoadOf("successes"), StorePlus("successes", 1),
             Assign("consecutive_failures", 0), EndWith("manager")>>
      [] op = "record_failure" ->
           <<WithLock("manager"), LoadOf("failures"), StorePlus("failures", 1),
             LoadOf("consecutive_failures"), StorePlus("consecutive_failures", 1),
             EndWith("manager")>>
      [] op = "record_bot_detection" ->
           <<WithLock("manager"), LoadOf("failures"), StorePlus("failures", 1),
             LoadOf("consecutive_failures"), StorePlus("consecutive_failures", 1),
             LoadOf("bot_detections"), StorePlus("bot_detections", 1),
             EndWith("manager")>>
      [] op = "admission" ->
           <<IfNot("has_slot", 4), LoadOf("active_stores"), StorePlus("active_stores", 1)>>
      [] op = "store_failure" ->
           <<WithLock("spider"), LoadOf("active_stores"), StorePlus("active_stores", -1),
             EndWith("spider")>>
      [] op = "store_page" ->
           <<WithLock("spider"), Assign("store_category_status", CallCategories),
             EndWith("spider")>>
      [] op = "category_complete" ->
           <<WithLock("spider"), IfNot("tracked", 10),
             LoadOf("store_category_status"), StorePlus("store_category_status", -1),
             IfNot("all_done", 10), IfNot("some_active", 9),
             LoadOf("active_stores"), StorePlus("active_stores", -1),
             Assign("store_category_status", NoCounter), EndWith("spider")>>

\* the conditions the statements test, on the counters as they are
Holds(test, c) ==
    CASE test = "has_slot" -> c.active_stores < CallParallel
      [] test = "tracked" -> c.store_category_status # NoCounter
      [] test = "all_done" -> AllDone(c.store_category_status)
      [] test = "some_active" -> c.active_stores > 0

\* the whole call at once, as a sequential execution runs it
Sequential(op, c) ==
    CASE op = "get_proxy" -> [c EXCEPT !.requests = @ + 1]
      [] op = "record_success" ->
           [c EXCEPT !.successes = @ + 1, !.consecutive_failures = 0]
      [] op = "record_failure" ->
           [c EXCEPT !.failures = @ + 1, !.consecutive_failures = @ + 1]
      [] op = "record_bot_detection" ->
           [c EXCEPT !.failures = @ + 1, !.consecutive_failures = @ + 1,
                     !.bot_detections = @ + 1]
      [] op = "admission" ->
           IF c.active_stores < CallParallel
           THEN [c EXCEPT !.active_stores = @ + 1] ELSE c
      [] op = "store_failure" -> [c EXCEPT !.active_stores = @ - 1]
      [] op = "store_page" -> [c EXCEPT !.store_category_status = CallCategories]
      [] op = "category_complete" ->
           IF c.store_category_status = NoCounter THEN c
           ELSE IF AllDone(c.store_category_status - 1)
                THEN [c EXCEPT !.store_category_status = NoCounter,
                               !.active_stores = IF @ > 0 THEN @ - 1 ELSE @]
                ELSE [c EXCEPT !.store_category_status = @ - 1]

\* the calls of the given kinds that wait for the reactor
Waiting(kinds) == {c \in Callers : callers[c].pc = "pending" /\ callers[c].op \in kinds}

\* the admitted stores whose store page is not answered yet, less those whose
\* answer already waits
Unanswered ==
    sequential.active_stores
        - (IF sequential.store_category_status = NoCounter THEN 0 ELSE 1)
        - Cardinality(Waiting({"store_failure", "store_page"}))

\* the calls the crawl can make in the state: a store page is answered for an
\* admitted store, a category completes for a store that has categories pending
CanCall(op) ==
    CASE op \in {"store_failure"} -> Unanswered > 0
      [] op = "store_page" ->
           /\ Unanswered > 0
           /\ sequential.store_category_status = NoCounter
           /\ Waiting({"store_page"}) = {}
      [] op = "category_complete" ->
           /\ sequential.store_category_status # NoCounter
           /\ Cardinality(Waiting({"category_complete"})) < sequential.store_category_status
      [] OTHER -> TRUE

\* a call is made: its callback waits for the reactor
Request(c, op) ==
    /\ calls_made < MaxCalls
    /\ callers[c].pc = "idle"
    /\ CanCall(op)
    /\ callers' = [callers EXCEPT ![c] = [pc |-> "pending", op |-> op, at |-> 0, reg |-> 0]]
    /\ calls_made' = calls_made + 1
    /\ UNCHANGED <<counters, sequential, locks>>
    /\ UNCHANGED <<schedVars, proxyVars, poolVars, basicVars, funVars>>

\* callbacks and manager calls run in the reactor thread, one at a time
ReactorFree_OwnThreads == TRUE

ReactorFree == \A c \in Callers : callers[c].pc # "running"

\* the reactor starts the call; a sequential execution runs it here
Dispatch(c) ==
    /\ callers[c].pc = "pending"
    /\ ReactorFree
    /\ callers' = [callers EXCEPT ![c].pc = "running", ![c].at = 1]
    /\ sequential' = Sequential(callers[c].op, sequential)
    /\ UNCHANGED <<counters, locks, calls_made>>
    /\ UNCHANGED <<schedVars, proxyVars, poolVars, basicVars, funVars>>

\* the statement caller c is at
Statement(c) == Program(callers[c].op)[callers[c].at]

At(c, kind) ==
    /\ callers[c].pc = "running"
    /\ Statement(c).kind = kind

\* caller c goes on at statement next, or returns after the last one
Goes(c, next, reg) ==
    IF next > Len(Program(callers[c].op))
    THEN [callers EXCEPT ![c] = NoCall]
    ELSE [callers EXCEPT ![c].at = next, ![c].reg = reg]

\* with self.lock: a threading.Lock, taken when it is free
AcquireLock(c) ==
    /\ At(c, "acquire")
    /\ locks[Statement(c).lock] = 0
    /\ locks' = [locks EXCEPT ![Statement(c).lock] = c]
    /\ callers' = Goes(c, callers[c].at + 1, callers[c].reg)
    /\ UNCHANGED <<counters, sequential, calls_made>>
    /\ UNCHANGED <<schedVars, proxyVars, poolVars, basicVars, funVars>>

ReleaseLock(c) ==
    /\ At(c, "release")
    /\ locks' = [locks EXCEPT ![Statement(c).lock] = 0]
    /\ callers' = Goes(c, callers[c].at + 1, callers[c].reg)
    /\ UNCHANGED <<counters, sequential, calls_made>>
    /\ UNCHANGED <<schedVars, proxyVars, poolVars, basicVars, funVars>>

\* the read of "x += d"
Load(c) ==
    /\ At(c, "load")
    /\ callers' = Goes(c, callers[c].at + 1, counters[Statement(c).field])
    /\ UNCHANGED <<counters, sequential, locks, calls_made>>
    /\ UNCHANGED <<schedVars, proxyVars, poolVars, basicVars, funVars>>

\* the write of "x += d"
Store(c) ==
    /\ At(c, "store")
    /\ counters' = [counters EXCEPT ![Statement(c).field] = callers[c].reg + Statement(c).value]
    /\ callers' = Goes(c, callers[c].at + 1, 0)
    /\ UNCHANGED <<sequential, locks, calls_made>>
    /\ UNCHANGED <<schedVars, proxyVars, poolVars, basicVars, funVars>>

\* "x = v", and "del x"
AssignValue(c) ==
    /\ At(c, "assign")
    /\ counters' = [counters EXCEPT ![Statement(c).field] = Statement(c).value]
    /\ callers' = Goes(c, callers[c].at + 1, 0)
    /\ UNCHANGED <<sequential, locks, calls_made>>
    /\ UNCHANGED <<schedVars, proxyVars, poolVars, basicVars, funVars>>

\* an "if" or the "while" of schedule_next_stores
Test(c) ==
    /\ At(c, "test")
    /\ callers' = Goes(c, IF Holds(Statement(c).field, counters)
                          THEN callers[c].at + 1 ELSE Statement(c).else, 0)
    /\ UNCHANGED <<counters, sequential, locks, calls_made>>
    /\ UNCHANGED <<schedVars, proxyVars, poolVars, basicVars, funVars>>

CallsNext ==
    \/ \E c \in Callers, op \in CallOps : Request(c, op)
    \/ \E c \in Callers : Dispatch(c)
    \/ \E c \in Callers : AcquireLock(c)
    \/ \E c \in Callers : ReleaseLock(c)
    \/ \E c \in Callers : Load(c)
    \/ \E c \in Callers : Store(c)
    \/ \E c \in Callers : AssignValue(c)
    \/ \E c \in Callers : Test(c)

CallsOff ==
    /\ callers = <<>>
    /\ counters = ZeroCounters
    /\ sequential = ZeroCounters
    /\ locks = <<>>
    /\ calls_made = 0

-----------------------------------------------------------------------------
(* Loading the proxy files: EnhancedProxyManager._load_and_categorize_proxies
   and AdaptiveProxyManager._load_proxies *)

NumAddresses == 2
MaxCandidates == 2

Addresses == 1..NumAddresses

\* the kinds of entry of a proxy file: a residential proxy in the US, a
\* datacenter proxy elsewhere, a SOCKS proxy
CandidateKinds ==
    {[protocol |-> "http", type |-> "residential", countryCode |-> "US"],
     [protocol |-> "http", type |-> "", countryCode |-> "DE"],
     [protocol |-> "socks5", type |-> "", countryCode |-> "US"]}

\* an entry of a proxy file: its address ("proxy") and its other fields
Candidates ==
    {[proxy |-> a, protocol |-> k.protocol, type |-> k.type, countryCode |-> k.countryCode] :
        a \in Addresses, k \in CandidateKinds}

CandidateFiles == UNION {[1..n -> Candidates] : n \in 0..MaxCandidates}

NotLoaded == [class |-> "none", all_proxies |-> <<>>, residential_proxies |-> <<>>,
              datacenter_proxies |-> <<>>]

LoadInit ==
    /\ primary_file \in CandidateFiles
    /\ fallback_file \in CandidateFiles
    /\ registry = NotLoaded

\* _categorize_proxy on every entry of a file, after the lists so far: a SOCKS
\* proxy is skipped, any other entry is appended to the list of its category
\* and to all_proxies
RECURSIVE categorize_proxies(_, _)
categorize_proxies(file, lists) ==
    IF file = <<>> THEN lists
    ELSE LET proxy_info == Head(file) IN
         categorize_proxies(Tail(file),
             IF proxy_info.protocol \in {"socks", "socks4", "socks5"} THEN lists
             ELSE IF proxy_info.type = "residential"
             THEN [lists EXCEPT !.residential_proxies = Append(@, proxy_info),
                                !.all_proxies = Append(@, proxy_info)]
             ELSE [lists EXCEPT !.datacenter_proxies = Append(@, proxy_info),
                                !.all_proxies = Append(@, proxy_info)])

\* the entries of a list that satisfy the test (are, or are not, in the US)
RECURSIVE InCountry(_, _)
InCountry(list, us) ==
    IF list = <<>> THEN <<>>
    ELSE IF (Head(list).countryCode = "US") = us
         THEN <<Head(list)>> \o InCountry(Tail(list), us)
         ELSE InCountry(Tail(list), us)

\* _apply_walmart_filters: the proxies of the US first (no entry of the model
\* names one of the bad providers)
apply_walmart_filters(lists) ==
    [lists EXCEPT
        !.residential_proxies = InCountry(@, TRUE) \o InCountry(@, FALSE),
        !.datacenter_proxies = InCountry(@, TRUE) \o InCountry(@, FALSE)]

\* EnhancedProxyManager._load_and_categorize_proxies
load_and_categorize_proxies(primary, fallback) ==
    LET first == categorize_proxies(primary, [NotLoaded EXCEPT !.class = "enhanced"])
        all == IF first.all_proxies = <<>> THEN categorize_proxies(fallback, first)
               ELSE first
    IN  apply_walmart_filters(all)

\* AdaptiveProxyManager._load_proxies: self.proxies, every entry appended
load_proxies(primary, fallback) ==
    LET file == IF primary # <<>> THEN primary ELSE fallback IN
    [NotLoaded EXCEPT !.class = "adaptive", !.all_proxies = file]

EnhancedLoad ==
    /\ registry = NotLoaded
    /\ registry' = load_and_categorize_proxies(primary_file, fallback_file)
    /\ UNCHANGED <<primary_file, fallback_file>>
    /\ UNCHANGED <<schedVars, proxyVars, poolVars, basicVars, callVars, retryVars>>

AdaptiveLoad ==
    /\ registry = NotLoaded
    /\ registry' = load_proxies(primary_file, fallback_file)
    /\ UNCHANGED <<primary_file, fallback_file>>
    /\ UNCHANGED <<schedVars, proxyVars, poolVars, basicVars, callVars, retryVars>>

LoadNext ==
    \/ EnhancedLoad
    \/ AdaptiveLoad

LoadOff ==
    /\ primary_file = <<>>
    /\ fallback_file = <<>>
    /\ registry = NotLoaded


-----------------------------------------------------------------------------
(* make_request_with_retries *)

MaxRetries == 3

\* backoff_factor, in tenths of a second (the default, 0.5)
DefaultBackoff == 5

\* requests.RequestException raised by session.request, in place of a status
RequestException == 0

\* what session.request can give: a status code, or an exception
Answers == {200, 404, 429, 500, 599, 600, RequestException}

\* "500 <= response.status_code < 600 or response.status_code == 429": the
\* response is raised as an HTTPError by raise_for_status
RaisesForStatus_Only5xx(status) == 500 <= status /\ status < 600

RaisesForStatus(status) == (500 <= status /\ status < 600) \/ status = 429

RECURSIVE Pow2(_)
Pow2(i) == IF i = 0 THEN 1 ELSE 2 * Pow2(i - 1)

RetryInit ==
    \E retries \in 0..MaxRetries :
        retry_call = [retries |-> retries, backoff_factor |-> DefaultBackoff, i |-> 0,
                      answers |-> <<>>, sleeps |-> <<>>, returned |-> "nothing",
                      status_code |-> 0]

\* one pass of "for i in range(retries)": the request is made and answers
Attempt(answer) ==
    /\ retry_call.returned = "nothing"
    /\ retry_call.i < retry_call.retries
    /\ LET i == retry_call.i
           made == [retry_call EXCEPT !.answers = Append(@, answer)]
       IN
       retry_call' =
           IF answer # RequestException /\ ~RaisesForStatus(answer)
           THEN [made EXCEPT !.returned = "response", !.status_code = answer]
           ELSE IF i < retry_call.retries - 1
           THEN [made EXCEPT !.sleeps = Append(@, retry_call.backoff_factor * Pow2(i)),
                             !.i = i + 1]
           ELSE [made EXCEPT !.returned = "None"]
    /\ UNCHANGED <<schedVars, proxyVars, poolVars, basicVars, callVars, loadVars>>

\* range(0) is empty: the function ends without a return statement
NoAttempt ==
    /\ retry_call.returned = "nothing"
    /\ retry_call.retries = 0
    /\ retry_call' = [retry_call EXCEPT !.returned = "None"]
    /\ UNCHANGED <<schedVars, proxyVars, poolVars, basicVars, callVars, loadVars>>

RetryNext ==
    \/ \E answer \in Answers : Attempt(answer)
    \/ NoAttempt

RetryOff ==
    retry_call = [retries |-> 0, backoff_factor |-> 0, i |-> 0, answers |-> <<>>,
                  sleeps |-> <<>>, returned |-> "nothing", status_code |-> 0]

FunOff == LoadOff /\ RetryOff

\* the spider alone
InitSched ==
    SchedInit /\ page_log = NoPage /\ ProxyOff /\ PoolOff /\ ProxyManagerOff /\ CallsOff /\ FunOff

SpecSched == InitSched /\ [][SchedNext]_vars

\* the spider alone, when every request is answered: each callback or errback
\* of a request in flight is run in the end, the engine resumes a suspended
\* generator, and the idle signal is sent when the engine is idle
SchedFairness ==
    /\ WF_vars(Start \/ StartNoCategories)
    /\ WF_vars(GenResume)
    /\ \A s \in StoreIds :
           WF_vars(HandleStoreError(s) \/ ParseStorePageOk(s) \/ ParseStorePageFailed(s))
    /\ \A s \in StoreIds, page \in Pages :
           WF_vars((\E n \in PageResults : ParseCategory(s, page, n))
                       \/ HandleCategoryError(s, page))
    /\ WF_vars(SpiderIdleSchedule \/ SpiderIdleClose)

SpecSchedLive == InitSched /\ [][SchedNext]_vars /\ SchedFairness

\* the spider alone, with the history of the category pages
InitPages ==
    SchedInit /\ page_log = [NoPage EXCEPT !.kept = TRUE] /\ ProxyOff /\ PoolOff /\ ProxyManagerOff
        /\ CallsOff /\ FunOff

SpecPages == InitPages /\ [][SchedNext]_vars

\* a proxy manager alone
InitProxy ==
    ProxyInit /\ SchedOff /\ PoolOff /\ ProxyManagerOff /\ CallsOff /\ FunOff

SpecProxy == InitProxy /\ [][ProxyNext]_vars

\* the browser pool of the middleware with its EnhancedProxyManager
InitPool ==
    ProxyInit /\ manager = "enhanced" /\ PoolInit /\ SchedOff /\ ProxyManagerOff /\ CallsOff /\ FunOff

SpecPool == InitPool /\ [][PoolNext]_vars

\* the browser pool of UnifiedProxyBrowserMiddleware with its ProxyManager
InitUnified ==
    UnifiedInit /\ ProxyOff /\ SchedOff /\ CallsOff /\ FunOff

SpecUnified == InitUnified /\ [][UnifiedNext]_vars

\* the calls on the shared counters
InitCalls == CallsInit /\ SchedOff /\ ProxyOff /\ PoolOff /\ ProxyManagerOff /\ FunOff

SpecCalls == InitCalls /\ [][CallsNext]_vars

\* a proxy manager loads its files
InitLoad ==
    LoadInit /\ SchedOff /\ ProxyOff /\ PoolOff /\ ProxyManagerOff /\ CallsOff /\ RetryOff

SpecLoad == InitLoad /\ [][LoadNext]_vars

\* a call of make_request_with_retries
InitRetry ==
    RetryInit /\ SchedOff /\ ProxyOff /\ PoolOff /\ ProxyManagerOff /\ CallsOff /\ LoadOff

SpecRetry == InitRetry /\ [][RetryNext]_vars


-----------------------------------------------------------------------------
(* Claims about the scheduler, checked under SpecSched *)

\* C3: for a store whose N categories have all reported drained (by
\* parse_category or handle_category_error, in any order), the pending counter
\* reached 0 exactly once, at the last report and not before, the entry was
\* removed and active_stores was decremented for the store exactly once.
C3_CounterCorrect ==
    \A s \in StoreIds :
        /\ (drained[s] >= 1 /\ drained[s] = categories) =>
               /\ zero_count[s] = 1
               /\ active_dec[s] = 1
               /\ s \notin DOMAIN store_category_status
        /\ drained[s] < categories => zero_count[s] = 0
        /\ s \in DOMAIN store_category_status => active_dec[s] = 0
        /\ drained[s] <= categories

\* a store with two categories, both drained, while another store is still active
C3_Witness ==
    \E s \in StoreIds :
        /\ categories = 2
        /\ drained[s] = 2
        /\ zero_count[s] = 1
        /\ active_stores >= 1

\* C4: active_stores never exceeds parallel_stores.
C4_AdmissionCeiling == active_stores <= parallel_stores

\* the ceiling is reached by an idle signal's admissions while stores stay queued
C4_Witness ==
    /\ idle_log.fired
    /\ active_stores = parallel_stores
    /\ stores_queue # <<>>

\* C5 as stated: an idle signal that finds active_stores below parallel_stores
\* and stores queued admits exactly min(parallel_stores - active_stores, number
\* of queued stores) stores.
C5_AdmitsMinOfQueueLength ==
    idle_log.fired =>
        idle_log.admitted =
            Min2(parallel_stores - idle_log.active, Len(idle_log.queue))

\* C5 amended: such an idle signal admits min(parallel_stores - active_stores,
\* number of distinct queued store ids not yet processed) stores, and afterwards
\* the ceiling is reached or the queue is empty.
C5_AdmitsMinOfNewStores ==
    idle_log.fired =>
        /\ idle_log.admitted =
               Min2(parallel_stores - idle_log.active,
                    Cardinality(Range(idle_log.queue) \ idle_log.processed))
        /\ \/ idle_log.active_after = parallel_stores
           \/ idle_log.queue_after = <<>>

\* an idle signal that admitted two stores at once and left one queued
C5_Witness ==
    /\ idle_log.fired
    /\ idle_log.admitted = 2
    /\ idle_log.queue_after # <<>>

\* a store that was never admitted is waiting in the queue
HasNewStore == \E i \in DOMAIN stores_queue : stores_queue[i] \notin processed_stores

\* with two slots, one store has drained all its categories and left its slot,
\* no slot was given back for any other reason, a new store is queued and the
\* other active store still has category requests in flight
SlotFreedByCompletion ==
    /\ started
    /\ ~closed
    /\ parallel_stores = 2
    /\ pending_gens = 0
    /\ active_stores = 1
    /\ \A s \in StoreIds : active_dec[s] = zero_count[s]
    /\ \E s \in StoreIds : zero_count[s] > 0
    /\ HasNewStore
    /\ store_requests = {}
    /\ \E s \in DOMAIN store_category_status, page \in Pages : category_requests[s][page] > 0

\* C11 as stated: with parallel_stores = 2 and stores queued, the slot of a
\* store that has drained all its categories while the other store is still
\* being crawled is given to a queued store before the other work has finished:
\* no step ends the other store's last request while the slot is still empty.
C11_FreedSlotRefilled == [][SlotFreedByCompletion => ~EngineIdle']_vars

-----------------------------------------------------------------------------
(* Claims about the category pages, checked under SpecPages *)

\* the category requests of a store in flight, over the pages up to the given one
RECURSIVE RequestsInFlight(_, _)
RequestsInFlight(s, page) ==
    IF page = 0 THEN 0 ELSE category_requests[s][page] + RequestsInFlight(s, page - 1)

-----------------------------------------------------------------------------
(* Claims about the proxy managers, checked under SpecProxy *)

\* C6: a proxy whose cooldown_until lies in the future is never returned by
\* get_proxy, of either manager and after any sequence of record_success,
\* record_failure and get_proxy calls: the proxy a call returns has no
\* cooldown_until in the future when it is returned, and a proxy that had one when
\* the call began is returned only by a call that found no proxy available and
\* cleared all cooldowns.
C6_CoolingProxyNotReturned ==
    (last_get.returned /\ last_get.proxy # 0) =>
        /\ proxy_stats[last_get.proxy].cooldown_until <= now
        /\ last_get.proxy \in last_get.cooling => last_get.reset

\* get_proxy has just returned a proxy while another one is in its cooldown
C6_Witness ==
    /\ last_get.returned
    /\ last_get.proxy # 0
    /\ ~last_get.reset
    /\ \E p \in DOMAIN proxy_stats :
           /\ p # last_get.proxy
           /\ proxy_stats[p].cooldown_until > now
           /\ p \in last_get.cooling

\* C7: a proxy of the EnhancedProxyManager for which record_failure was called
\* three times with bot detection is in walmart_blocked_ips, and no later
\* get_proxy call returns it; a call that performs the emergency reset returns
\* no proxy at all.
C7_BlockedNeverReturned ==
    manager = "enhanced" =>
        /\ \A p \in DOMAIN proxy_stats :
               bot_reports[p] >= 3 =>
                   /\ p \in walmart_blocked_ips
                   /\ ~(last_get.returned /\ last_get.proxy = p)
        /\ last_get.reset => ~last_get.returned

\* a proxy with three bot detections, out of its cooldown and without consecutive
\* failures after a success, while get_proxy has just returned another proxy
C7_Witness ==
    /\ manager = "enhanced"
    /\ last_get.returned
    /\ \E p \in DOMAIN proxy_stats :
           /\ bot_reports[p] = 3
           /\ proxy_stats[p].cooldown_until = NoTime
           /\ proxy_stats[p].consecutive_failures = 0
           /\ last_get.proxy # p

\* C8 as stated: a get_proxy call that finds no proxy available and clears the
\* cooldowns ends by returning to its caller, a proxy or a failure, and leaves the
\* manager usable.
C8_ResetThenReturns ==
    last_get.reset => (last_get.returned /\ lock = "free")

-----------------------------------------------------------------------------
(* Claims about the browser pool, checked under SpecPool *)

\* the sessions being created, ready in the pool, or checked out by a request
SessionsInCirculation ==
    Cardinality(threads) + Len(browser_pool)
        + Cardinality({w \in Workers : workers[w].object # 0})

\* C1: at every moment, over start-up creations, acquires, proxy rotations,
\* releases and failure-triggered replacements, the number of browser sessions
\* being created, ready in the pool or checked out is at most the configured
\* pool size.
C1_PoolBound == SessionsInCirculation <= browser_pool_size

\* a pool of two at its bound after a failure: one replacement is being created
\* while the other session is checked out by a request
C1_Witness ==
    /\ browser_pool_size = 2
    /\ SessionsInCirculation = 2
    /\ \E th \in threads : ~th.startup
    /\ \E w \in Workers : workers[w].object # 0

\* C2 as stated: a session handed to one request by process_request is not
\* handed to another before its release, and two sessions alive at the same time
\* never carry the same session identifier.
C2_ExclusiveUniqueIds ==
    /\ \A v, w \in Workers :
           (v # w /\ workers[v].object # 0) => workers[v].object # workers[w].object
    /\ \A a, b \in DOMAIN browser_info :
           a # b => browser_info[a].session_id # browser_info[b].session_id

\* C10 as stated: a fetch on which a bot challenge was detected has incremented
\* bot_detections of the proxy, and its release destroys the session and spawns a
\* replacement instead of returning the session with its proxy to the pool.
C10_ChallengeQuarantines ==
    (last_release.ended /\ last_release.challenged) =>
        /\ last_release.counted
        /\ last_release.replaced
        /\ ~last_release.requeued

-----------------------------------------------------------------------------
(* Claims about sessions and their proxies, checked under SpecUnified *)

\* C9 as stated: no browser session is created or put into the pool without a
\* bound proxy: no creation thread is started without a proxy, and every session
\* that is in the pool or checked out has a proxy and a driver that uses it.
C9_NoUnproxiedSession ==
    /\ \A th \in threads : th.proxy # 0
    /\ \A object \in DOMAIN browser_info :
           /\ browser_info[object].proxy # 0
           /\ browser_info[object].driver # "direct"

-----------------------------------------------------------------------------
(* Claims about process_request and spider_opened, checked under SpecPool *)

\* C13 as stated: process_request never blocks indefinitely: it ends with
\* IgnoreRequest when no session becomes ready in time, and once it has a
\* session it returns to its caller; no call is stuck inside process_request.
C13_AcquireReturns ==
    \A w \in Workers : workers[w].pc # "stuck in process_request"

\* C14 as stated: spider_opened requests one proxy per slot, waits for all the
\* creation threads and then terminates: it never stays inside a proxy
\* selection, it raises RuntimeError only when no session was created, and
\* when it returns the pool holds exactly the sessions that were created, at
\* least one.
C14_StartupTerminates ==
    /\ opened # "hung"
    /\ opened = "failed" => DOMAIN browser_info = {}
    /\ (opened = "yes" /\ requests_made = 0 /\ threads = {}) =>
           /\ browser_pool # <<>>
           /\ Range(browser_pool) = DOMAIN browser_info

\* C15 as stated: when the creation of a replacement session fails, creation is
\* retried with a fresh proxy: a replacement thread ends either with its session
\* created or with another replacement thread started in its place.
C15_ReplacementRetried ==
    [][\A th \in threads :
          (~th.startup /\ th \notin threads') =>
              \/ th.object \in DOMAIN browser_info'
              \/ \E retry \in threads' \ threads : ~retry.startup]_vars

\* C16 as stated: after spider_closed has completed no session is alive: the
\* pool is empty, no session has a driver, and none is added afterwards.
C16_NoSessionAfterShutdown ==
    opened = "closed" => (browser_pool = <<>> /\ DOMAIN browser_info = {})

\* C17: a get_proxy call whose context carries the last proxy of a retry
\* never returns that proxy, the emergency-reset path included.
C17_LastProxyOfRetryNotReturned ==
    (last_get.returned /\ last_get.excluded # 0)
        => last_get.proxy # last_get.excluded

\* the store-page step of store s fails in this step: its request is answered
\* and the store gets no pending-category counter
StorePageStepFails(s) ==
    /\ s \in store_requests
    /\ s \notin store_requests'
    /\ s \notin DOMAIN store_category_status'

\* C18: when a store's store-page step fails (errback, or a response whose URL
\* shows the store was not set) the slot is released exactly once and the next
\* queued store is considered for admission at once: after the step no slot is
\* free while a new store waits, unless a schedule_next_stores is under way.
C18_StoreFailureReleasesAndSchedules ==
    [][\A s \in StoreIds :
          StorePageStepFails(s) =>
              /\ active_dec'[s] = active_dec[s] + 1
              /\ (active_stores' < parallel_stores /\ HasNewStore') => pending_gens' > 0]_vars

\* store s counts toward active_stores: it was admitted and its slot has not
\* been given back
ActiveStore(s) == s \in processed_stores /\ active_dec[s] = 0

\* the store has a pending-category counter and it is greater than 0
HasPendingCategories(s) ==
    s \in DOMAIN store_category_status /\ store_category_status[s] > 0

\* C19: in every reachable state a store counts toward active_stores if and
\* only if its pending-category counter exists and is greater than 0; the
\* counter and active_stores are never negative, and a store leaves the active
\* set once, when its counter reaches 0.
C19_ActiveIffPendingCategories ==
    /\ \A s \in StoreIds : ActiveStore(s) <=> HasPendingCategories(s)
    /\ \A s \in DOMAIN store_category_status : store_category_status[s] >= 0
    /\ active_stores >= 0
    /\ \A s \in StoreIds : active_dec[s] <= 1 /\ zero_count[s] <= active_dec[s]

\* no call is being run
NoCallRunning == \A c \in Callers : callers[c].pc # "running"

Queued(s) == \E i \in DOMAIN stores_queue : stores_queue[i] = s

\* C21: the crawl does not stall: when every request is answered, every store
\* loaded into the queue is admitted in the end and leaves the active set in
\* the end, and the spider never closes while new stores are queued.
C21_CrawlDoesNotStall ==
    /\ [](closed => ~HasNewStore)
    /\ \A s \in StoreIds :
           [](Queued(s) => <>(s \in processed_stores /\ ~ActiveStore(s)))

\* a request waits for a session: the crawl has more requests, and some call
\* of process_request has not begun
AcquirerWaits ==
    /\ opened = "yes"
    /\ requests_made < MaxRequests
    /\ \E w \in Workers : workers[w].pc = "idle"

\* C22: with more concurrent acquirers than sessions, as many acquirers as the
\* pool has sessions obtain one and the others wait in acquire until a release:
\* while a session is ready in the pool, a waiting acquirer obtains it, and the
\* sessions held never exceed the pool size.
C22_ReadySessionServesWaitingAcquirer ==
    /\ (AcquirerWaits /\ browser_pool # <<>>) =>
           ENABLED (\E w \in Workers, retry_count \in RetryCounts : Acquire(w, retry_count))
    /\ Cardinality({w \in Workers : workers[w].object # 0}) <= browser_pool_size

\* no address occurs twice in the list
NoAddressTwice(list) ==
    \A i, j \in DOMAIN list : i # j => list[i].proxy # list[j].proxy

\* C23: after a manager has loaded its candidates, no two proxy records it
\* holds share an address: an address that occurs several times in the input
\* appears once in the selection lists.
C23_LoadedAddressesDistinct ==
    registry.class # "none" =>
        /\ NoAddressTwice(registry.all_proxies)
        /\ NoAddressTwice(registry.residential_proxies)
        /\ NoAddressTwice(registry.datacenter_proxies)

\* the answers after which the request is tried again: a 5xx or a 429
\* response, or an exception of the request
FailedAttempts == {n \in 500..599 : TRUE} \cup {429, RequestException}

\* C24: make_request_with_retries makes at most `retries` attempts, sleeps
\* backoff_factor * 2^i after the i-th failed attempt and not after the last,
\* returns the first response that is not a 5xx or 429 failure, returns None
\* once all attempts have failed, and always terminates.
C24_RetriesWithBackoff ==
    LET answers == retry_call.answers
        sleeps == retry_call.sleeps
        failed == {k \in DOMAIN answers : answers[k] \in FailedAttempts}
    IN
    /\ Len(answers) <= retry_call.retries
    /\ \A k \in DOMAIN sleeps : sleeps[k] = retry_call.backoff_factor * Pow2(k - 1)
    /\ retry_call.returned = "nothing" =>
           /\ failed = DOMAIN answers
           /\ Len(sleeps) = Len(answers)
           /\ ENABLED RetryNext
    /\ retry_call.returned = "response" =>
           /\ failed = DOMAIN answers \ {Len(answers)}
           /\ retry_call.status_code = answers[Len(answers)]
           /\ Len(sleeps) = Len(answers) - 1
    /\ retry_call.returned = "None" =>
           /\ failed = DOMAIN answers
           /\ Len(answers) = retry_call.retries
           /\ Len(sleeps) = IF retry_call.retries = 0 THEN 0 ELSE retry_call.retries - 1

\* three attempts allowed: a 500 and a 429 response, then a 404 response, which
\* is returned after sleeps of 0.5 s and 1 s
C24_Witness ==
    /\ retry_call.retries = 3
    /\ retry_call.answers = <<500, 429, 404>>
    /\ retry_call.returned = "response"
    /\ retry_call.sleeps = <<5, 10>>

\* C25: a fetch on which the bot-challenge check is positive is surfaced to the
\* release callback as BotDetectionError, never as another failure.
C25_ChallengeSurfacedAsBotDetection ==
    \A w \in Workers :
        workers[w].challenged => workers[w].result = "BotDetectionError"

\* C26: every executed fetch reports exactly one outcome for the session's
\* proxy, one record_success or one record_failure, never both and never
\* none, before control returns to the caller.
C26_OneOutcomeReported ==
    \A w \in Workers : workers[w].pc = "fetched" => Len(workers[w].reports) = 1

\* the session process_request hands to the fetch of request w
HandedOut(w) == workers[w].pc = "ready"

\* C27: whenever acquire hands a session to a caller, the session's driver
\* handle is alive and belongs to the session's bound proxy; the bound proxy
\* changes only in a rotation step that also replaces the driver handle, and a
\* rotation whose driver re-creation fails does not hand out a session with a
\* destroyed handle.
C27_HandedOutDriverAlive ==
    [][/\ \A w \in Workers :
            HandedOut(w)' =>
                browser_info'[workers'[w].object].driver = "running"
       /\ \A o \in DOMAIN browser_info \cap DOMAIN browser_info' :
            browser_info'[o].proxy # browser_info[o].proxy =>
                /\ browser_info'[o].driver = "running"
                /\ \E w \in Workers :
                       /\ workers[w].object = o
                       /\ workers[w].pc = "acquired"
                       /\ ShouldRotate(w)
                       /\ HandedOut(w)']_vars

\* a creation thread started by a release is inside uc.Chrome
BackgroundCreationRunning == \E th \in threads : ~th.startup /\ init_lock = th.object

\* C28: a slow or failed session creation or replacement running in the
\* background never delays a caller that acquires an already-Ready session:
\* the caller's acquire, its optional proxy rotation included, completes
\* without waiting for the background creation.
C28_AcquireNotDelayedByCreation ==
    \A w \in Workers, p \in Proxies :
        (/\ BackgroundCreationRunning
         /\ workers[w].pc = "acquired"
         /\ ShouldRotate(w)
         /\ ENABLED EnhancedGetProxyReturns(NoContext, p))
        => ENABLED RotateProxy(w, p, TRUE)

\* the release of the session of request w, whose fetch met a bot challenge
ReleasedAfterChallenge(w) ==
    /\ workers[w].pc = "fetched"
    /\ workers[w].challenged
    /\ workers'[w].pc = "idle"

\* C29: on release with a bot-detection outcome the session is reset (warm-up
\* flag and request counter cleared) and returned to Ready when still usable;
\* it is destroyed and replaced only once it has accumulated too many
\* requests or too many bot detections.
C29_ChallengedSessionResetAndKept ==
    [][\A w \in Workers :
          ReleasedAfterChallenge(w) =>
              LET object == workers[w].object IN
              IF browser_info[object].request_count > RecreateAfter
              THEN object \notin DOMAIN browser_info'
              ELSE /\ object \in DOMAIN browser_info'
                   /\ browser_pool' = Append(browser_pool, object)
                   /\ ~browser_info'[object].warmed_up
                   /\ browser_info'[object].request_count = 0]_vars

\* the step of _release_enhanced_browser for the session of request w
ReleaseStep(w) ==
    /\ workers[w].pc = "fetched"
    /\ workers'[w] # workers[w]

\* C30: every session taken from the pool is, after its fetch ends with any
\* outcome, accounted for exactly once: it is put back into the pool once
\* (always so on success), or destroyed with exactly one replacement creation
\* spawned; it is never put back twice and never left outside the pool without
\* a replacement attempt.
C30_ReleasedSessionAccountedOnce ==
    [][\A w \in Workers :
          ReleaseStep(w) =>
              LET object == workers[w].object IN
              \/ /\ browser_pool' = Append(browser_pool, object)
                 /\ object \notin Range(browser_pool)
                 /\ object \in DOMAIN browser_info'
                 /\ threads' = threads
              \/ /\ workers[w].result # "response"
                 /\ browser_pool' = browser_pool
                 /\ object \notin DOMAIN browser_info'
                 /\ threads \subseteq threads'
                 /\ Cardinality(threads' \ threads) = 1]_vars

-----------------------------------------------------------------------------
(* Claims about failures that reach the scheduler *)

\* request w could not get a session (queue.Empty) or a proxy (get_proxy found
\* none available)
CouldNotGet(w) ==
    \/ workers[w].result = "IgnoreRequest"
    \/ workers[w].pc = "stuck in process_request"

\* process_request has ended with an exception, which Scrapy hands to the
\* errback of the request (handle_category_error)
FailureReachesErrback(w) ==
    /\ workers[w].pc = "idle"
    /\ workers[w].result = "IgnoreRequest"

\* C31: when a category task cannot get a session (acquire timeout) or a
\* proxy, the failure reaches the scheduler, which counts the category as
\* drained once, without re-queuing the task and without ending the crawl.
C31_FailureReachesScheduler ==
    \A w \in Workers : CouldNotGet(w) => FailureReachesErrback(w)

-----------------------------------------------------------------------------
(* Claims about the admission of stores, checked under SpecSched *)

\* the stores a step admits: schedule_next_stores takes them from the queue,
\* adds them to processed_stores and counts them in active_stores
Admitted == processed_stores' \ processed_stores

\* the slots a step gives back
SlotsReleased ==
    Cardinality({s \in StoreIds : active_dec'[s] # active_dec[s]})

\* the store page of s is answered and the store was set: parse_store_page
\* creates the counter of s
StoreSet(s) ==
    /\ s \notin DOMAIN store_category_status
    /\ s \in DOMAIN store_category_status'

\* C32: a store is moved from Queued to Active only while active_stores is
\* below parallel_stores, each admission counts once in active_stores and emits
\* the store-page request, and when the store has been set its pending-category
\* counter is the number of categories and exactly one page-1 request is
\* emitted per category, and no request of another page or store.
C32_AdmissionBelowCeilingAndFanOut ==
    [][/\ Admitted # {} =>
            /\ active_stores - SlotsReleased < parallel_stores
            /\ active_stores' = active_stores - SlotsReleased + Cardinality(Admitted)
            /\ active_stores' <= parallel_stores
            /\ Admitted \subseteq Range(stores_queue) \cup Range(stores_file)
            /\ Admitted \subseteq store_requests'
       /\ \A s \in StoreIds :
            StoreSet(s) =>
                /\ s \in store_requests /\ s \in processed_stores
                /\ store_category_status'[s] = categories
                /\ category_requests'[s][1] = category_requests[s][1] + categories
                /\ \A x \in StoreIds, page \in Pages :
                       (x # s \/ page # 1) =>
                           category_requests'[x][page] = category_requests[x][page]]_vars

\* two stores are active with two categories each; the second has just been set
\* and has its two page-1 requests in flight
C32_Witness ==
    /\ categories = 2
    /\ active_stores = 2
    /\ \E s \in StoreIds :
          /\ s \in DOMAIN store_category_status
          /\ store_category_status[s] = 2
          /\ category_requests[s][1] = 2
          /\ drained[s] = 0
    /\ Cardinality(DOMAIN store_category_status) = 2

-----------------------------------------------------------------------------
(* Claims about selection and the statistics, checked under SpecProxy *)

\* get_proxy called now, without a request context, would pass over proxy p
ExcludedFromSelection(p) ==
    IF manager = "enhanced" THEN Skipped(p, now)
    ELSE AdaptiveSkipped(p, now, NoContext)

\* C33: cooldown is the only time-based exclusion: a proxy that is not blocked
\* and whose cooldown_until is unset or in the past is eligible for selection;
\* whenever a proxy that is not blocked is excluded from selection its
\* cooldown_until is a future timestamp.
C33_ExcludedOnlyWhileCooling ==
    \A p \in DOMAIN proxy_stats :
        (ExcludedFromSelection(p) /\ p \notin walmart_blocked_ips) =>
            proxy_stats[p].cooldown_until > now

\* the step is a record_success call for proxy p
SuccessRecorded(p) == proxy_stats'[p].successes # proxy_stats[p].successes

\* C34 as stated: record_success on a proxy increments its success count by
\* one, leaves its cooldown unset, sets consecutive_failures to 0 and raises
\* its walmart_score, for every prior state of the proxy.
C34_SuccessRaisesScore ==
    [][\A p \in DOMAIN proxy_stats :
          SuccessRecorded(p) =>
              /\ proxy_stats'[p].successes = proxy_stats[p].successes + 1
              /\ proxy_stats'[p].cooldown_until = NoTime
              /\ proxy_stats'[p].consecutive_failures = 0
              /\ proxy_stats'[p].walmart_score > proxy_stats[p].walmart_score]_vars

\* C34 amended: record_success on a proxy increments its success count by one
\* and leaves its cooldown unset, for every prior state of the proxy; the
\* EnhancedProxyManager also sets consecutive_failures to 0 and raises
\* walmart_score by 5 up to the cap of 100, where it stays; the
\* AdaptiveProxyManager changes neither.
C34_SuccessRaisesScoreToCap ==
    [][\A p \in DOMAIN proxy_stats :
          SuccessRecorded(p) =>
              /\ proxy_stats'[p].successes = proxy_stats[p].successes + 1
              /\ proxy_stats'[p].cooldown_until = NoTime
              /\ IF manager = "enhanced"
                 THEN /\ proxy_stats'[p].consecutive_failures = 0
                      /\ proxy_stats'[p].walmart_score =
                             Min2(100, proxy_stats[p].walmart_score + 5)
                 ELSE /\ proxy_stats'[p].consecutive_failures =
                             proxy_stats[p].consecutive_failures
                      /\ proxy_stats'[p].walmart_score = proxy_stats[p].walmart_score]_vars

\* a proxy of the EnhancedProxyManager that failed once and then succeeded three
\* times: its score has reached the cap, its cooldown and its consecutive
\* failures are cleared
C34_Witness ==
    /\ manager = "enhanced"
    /\ \E p \in DOMAIN proxy_stats :
          /\ proxy_stats[p].failures = 1
          /\ proxy_stats[p].successes = 3
          /\ proxy_stats[p].walmart_score = 100
          /\ proxy_stats[p].consecutive_failures = 0
          /\ proxy_stats[p].cooldown_until = NoTime

\* the step is a record_failure call for proxy p without bot detection
FailureRecorded(p) ==
    /\ proxy_stats'[p].failures # proxy_stats[p].failures
    /\ proxy_stats'[p].bot_detections = proxy_stats[p].bot_detections

\* the minutes of cooldown at the n-th failure in a row
Escalating(n) == IF n >= 3 THEN 15 ELSE IF n >= 2 THEN 5 ELSE 1

\* the failures in a row of proxy p before a call, as far as the statistics
\* tell: the consecutive_failures of the EnhancedProxyManager, 0 for a proxy
\* that has never failed, else unknown (-1)
FailuresInARow(p) ==
    IF manager = "enhanced" THEN proxy_stats[p].consecutive_failures
    ELSE IF proxy_stats[p].failures = 0 THEN 0 ELSE -1

\* C35 as stated: the cooldown applied by a record_failure without bot
\* detection depends on the consecutive-failure count: 1 minute at the first,
\* 5 minutes at the second, 15 minutes from the third consecutive failure on;
\* after a record_success the next such failure applies 1 minute again.
C35_CooldownEscalates ==
    [][\A p \in DOMAIN proxy_stats :
          /\ (FailureRecorded(p) /\ FailuresInARow(p) >= 0) =>
                 proxy_stats'[p].cooldown_until =
                     now + Escalating(FailuresInARow(p) + 1) * Minute
          /\ SuccessRecorded(p) => FailuresInARow(p)' \in {0, -1}]_vars

\* C35 amended: in the EnhancedProxyManager the cooldown of a record_failure
\* without bot detection is 1, 5, 15 minutes at the first, second, third and
\* later consecutive failure (failures with bot detection count too), and a
\* record_success sets the count to 0; in the AdaptiveProxyManager it is 30, 10
\* or 2 minutes as failures / max(requests, 1) is above 0.8, above 0.5 or not.
C35_CooldownByManager ==
    [][\A p \in DOMAIN proxy_stats :
          /\ FailureRecorded(p) =>
                 IF manager = "enhanced"
                 THEN /\ proxy_stats'[p].consecutive_failures =
                             proxy_stats[p].consecutive_failures + 1
                      /\ proxy_stats'[p].cooldown_until =
                             now + Escalating(proxy_stats'[p].consecutive_failures) * Minute
                 ELSE LET f == proxy_stats[p].failures + 1
                          r == IF proxy_stats[p].requests > 1
                               THEN proxy_stats[p].requests ELSE 1
                      IN  proxy_stats'[p].cooldown_until =
                              now + (IF 10 * f > 8 * r THEN 30
                                     ELSE IF 10 * f > 5 * r THEN 10 ELSE 2) * Minute
          /\ (SuccessRecorded(p) /\ manager = "enhanced") =>
                 proxy_stats'[p].consecutive_failures = 0]_vars

\* a proxy of the EnhancedProxyManager at its third consecutive failure, none
\* with bot detection: its cooldown ends in 15 minutes
C35_Witness ==
    /\ manager = "enhanced"
    /\ \E p \in DOMAIN proxy_stats :
          /\ proxy_stats[p].consecutive_failures = 3
          /\ proxy_stats[p].bot_detections = 0
          /\ proxy_stats[p].cooldown_until = now + 15 * Minute

\* the step is a record_failure call for proxy p with bot detection
DetectionRecorded(p) ==
    proxy_stats'[p].bot_detections # proxy_stats[p].bot_detections

\* min(cap, base * n ** 2) minutes, with cap 60 and base 10
Quadratic(n) == Min2(60, 10 * n * n)

\* C36 as stated: the cooldown applied by the n-th record_failure with bot
\* detection on a proxy is min(60, 10 * n^2) minutes.
C36_DetectionCooldownQuadratic ==
    [][\A p \in DOMAIN proxy_stats :
          DetectionRecorded(p) =>
              proxy_stats'[p].cooldown_until =
                  now + Quadratic(proxy_stats'[p].bot_detections) * Minute]_vars

\* C36 amended: in the AdaptiveProxyManager the cooldown applied by the n-th
\* record_failure with bot detection on a proxy is min(60, 10 * n^2) minutes
\* (10, 40, 60, 60, ...); in the EnhancedProxyManager it is 30 minutes for
\* every n, and from the third on the proxy is blocked for good.
C36_DetectionCooldownByManager ==
    [][\A p \in DOMAIN proxy_stats :
          DetectionRecorded(p) =>
              /\ proxy_stats'[p].bot_detections = proxy_stats[p].bot_detections + 1
              /\ IF manager = "adaptive"
                 THEN proxy_stats'[p].cooldown_until =
                          now + Quadratic(proxy_stats'[p].bot_detections) * Minute
                 ELSE /\ proxy_stats'[p].cooldown_until = now + 30 * Minute
                      /\ proxy_stats'[p].bot_detections >= 3 =>
                             p \in walmart_blocked_ips']_vars

\* a proxy of the AdaptiveProxyManager at its third bot detection: the cooldown
\* has reached the cap of 60 minutes, after 10 and 40
C36_Witness ==
    /\ manager = "adaptive"
    /\ \E p \in DOMAIN proxy_stats :
          /\ proxy_stats[p].bot_detections = 3
          /\ proxy_stats[p].cooldown_until = now + 60 * Minute

\* K of the selection among the top performers
TopK == IF manager = "enhanced" THEN 3 ELSE 5

\* C37: every proxy returned by get_proxy is among the top-K highest-scoring
\* eligible proxies (K = 3 in EnhancedProxyManager, 5 in AdaptiveProxyManager),
\* and when the number of eligible proxies is at most K the single
\* highest-scoring eligible proxy is returned.
C37_ReturnedAmongTopK ==
    (last_get.returned /\ last_get.proxy # 0) =>
        LET ranking == last_get.ranking IN
        IF Len(ranking) > TopK
        THEN \E i \in 1..TopK : last_get.proxy = ranking[i]
        ELSE ranking # <<>> /\ last_get.proxy = ranking[1]

-----------------------------------------------------------------------------
(* Claims about the statistics of the pool's proxy manager, checked under SpecPool *)

\* the outcomes recorded for proxy p
OutcomesRecorded(p) == proxy_stats[p].successes + proxy_stats[p].failures

\* C38: for every proxy and in every reachable state of the pool with its proxy
\* manager, successes + failures <= requests, so that the success rate and the
\* detection rate of the score stay within [0, 1]; every proxy returned by
\* get_proxy has had its request count incremented by that call.
C38_OutcomesWithinRequests ==
    /\ \A p \in DOMAIN proxy_stats :
          /\ OutcomesRecorded(p) <= proxy_stats[p].requests
          /\ proxy_stats[p].bot_detections <= proxy_stats[p].requests
    /\ (last_get.returned /\ last_get.proxy # 0) =>
          proxy_stats[last_get.proxy].requests >= 1

-----------------------------------------------------------------------------
(* Claims about the reputation score after a failure, checked under SpecProxy *)

\* record_failure has acted on proxy p, with or without bot detection
AnyFailureRecorded(p) == proxy_stats'[p].failures # proxy_stats[p].failures

\* C39: record_failure never raises a proxy's reputation score: after any
\* record_failure call of EnhancedProxyManager, bot detection or not,
\* walmart_score is less than or equal to its value before the call, for every
\* prior score, the scores below -20 included.
C39_FailureNeverRaisesScore ==
    [][\A p \in DOMAIN proxy_stats :
          (manager = "enhanced" /\ AnyFailureRecorded(p)) =>
              proxy_stats'[p].walmart_score <= proxy_stats[p].walmart_score]_vars

-----------------------------------------------------------------------------
(* Claims about the stores admitted in a run, checked under SpecSched *)

\* the store-page requests a step emits
Emitted == store_requests' \ store_requests

\* C40: each store identifier is admitted at most once per run: over any
\* sequence of start, idle signals and store errors, schedule_next_stores never
\* emits a store-page request for a store id that is already in
\* processed_stores, and active_stores is incremented once for each store id
\* that enters processed_stores and never otherwise.
C40_StoreAdmittedOnce ==
    [][/\ Emitted \subseteq Admitted
       /\ Emitted \cap processed_stores = {}
       /\ active_stores' + SlotsReleased - active_stores = Cardinality(Admitted)
       /\ processed_stores \subseteq processed_stores']_vars

\* the stores file names a store twice and has been read to its end: the store
\* was admitted, its page answered and its slot given back before the second
\* occurrence was passed over
C40_Witness ==
    /\ started
    /\ stores_queue = <<>>
    /\ Len(stores_file) > Cardinality(Range(stores_file))
    /\ store_requests = {}
    /\ \E s \in processed_stores :
          /\ Cardinality({i \in DOMAIN stores_file : stores_file[i] = s}) = 2
          /\ active_dec[s] = 1
          /\ stores_file[Len(stores_file)] = s

====
